---------------------------- MODULE Spec2Model ----------------------------
(***************************************************************************)
(* Model of pypesto/hierarchical/optimal_scaling_solver.py: the inner      *)
(* solver for ordinal data (OptimalScalingInnerSolver) and the module-     *)
(* level functions it is built from; and of the constructor of             *)
(* pypesto/optdesign/design_problem.py.                                    *)
(*                                                                         *)
(* Numbers.  The code computes in float64.  The model computes exactly:    *)
(* a finite number is  r + e * 10^-16  with r and e rationals (the second  *)
(* component carries the default minGap 1e-16, which no 32-bit quotient    *)
(* can hold); NaN is a value of its own, as numpy's np.nan.  Rounding      *)
(* error is therefore outside the model.                                   *)
(***************************************************************************)
EXTENDS Integers, Sequences, FiniteSets, TLC

VARIABLES
    solver,              \* the OptimalScalingInnerSolver object (or its failed construction)
    pc,                  \* position of the running method of the solver object
    problem,             \* the InnerProblem handed to solve(): group catalog and group data
    gr_idx,              \* solve(): index into the catalog of the group being fitted
    inner_options,       \* spline_optimize_surrogate: the keyword arguments of minimize
    calls,               \* the invocations of scipy's minimize made so far, in order
    optimal_surrogates,  \* solve(): the list of per-group results built so far
    exc,                 \* the exception that left the running method, or "none"
    frame,               \* calculate_gradients: its arguments and local variables
    csv_rows,            \* rows appended to /home/zebo/Desktop/numerical_spline_xi.csv
    ret                  \* the last call of a module-level function: arguments and outcome

vars == <<solver, pc, problem, gr_idx, inner_options, calls, optimal_surrogates, exc,
          frame, csv_rows, ret>>

(***************************************************************************)
(* Bounds of the model.                                                    *)
(***************************************************************************)
MaxCategories == 3
MaxPoints == 3
MaxGroups == 2
MaxResults == 3
MaxSimAll == 6

(***************************************************************************)
(* Exact arithmetic.  A rational is <<n, d>> with d > 0 in lowest terms.   *)
(***************************************************************************)
Abs(n) == IF n < 0 THEN -n ELSE n

RECURSIVE GCD(_, _)
GCD(a, b) == IF b = 0 THEN a ELSE GCD(b, a % b)

RNorm(n, d) ==
    LET s == IF d < 0 THEN -1 ELSE 1
        g == GCD(Abs(n), Abs(d))
    IN  <<(s * n) \div g, (s * d) \div g>>

RAdd(a, b) == RNorm(a[1] * b[2] + b[1] * a[2], a[2] * b[2])
RNeg(a) == <<-a[1], a[2]>>
RSub(a, b) == RAdd(a, RNeg(b))
RMul(a, b) == RNorm(a[1] * b[1], a[2] * b[2])
RLess(a, b) == a[1] * b[2] < b[1] * a[2]
RZero == <<0, 1>>

(***************************************************************************)
(* float64 values of the code: k = "num" is r + e * 10^-16, k = "nan" is   *)
(* np.nan.  Every arithmetic operation on NaN gives NaN and every          *)
(* comparison with NaN is false, as in IEEE 754.                           *)
(***************************************************************************)
NaN == [k |-> "nan", r |-> RZero, e |-> RZero]
Num(r, e) == [k |-> "num", r |-> r, e |-> e]
V(n, d) == Num(RNorm(n, d), RZero)
Int2V(n) == V(n, 1)
IsNaN(a) == a.k = "nan"

VAdd(a, b) == IF IsNaN(a) \/ IsNaN(b) THEN NaN ELSE Num(RAdd(a.r, b.r), RAdd(a.e, b.e))
VNeg(a) == IF IsNaN(a) THEN NaN ELSE Num(RNeg(a.r), RNeg(a.e))
VSub(a, b) == VAdd(a, VNeg(b))
\* a * q and a / q for an exact rational q (q # 0 for the quotient)
VScale(a, q) == IF IsNaN(a) THEN NaN ELSE Num(RMul(a.r, q), RMul(a.e, q))
VDivInt(a, n) == VScale(a, RNorm(1, n))
\* a < b.  The components the model reaches are far below 10^16, so the
\* order of r + e * 10^-16 is the lexicographic order of (r, e).
VLess(a, b) ==
    /\ ~IsNaN(a)
    /\ ~IsNaN(b)
    /\ \/ RLess(a.r, b.r)
       \/ a.r = b.r /\ RLess(a.e, b.e)
VEq(a, b) == ~IsNaN(a) /\ ~IsNaN(b) /\ a = b
VLeq(a, b) == VLess(a, b) \/ VEq(a, b)
VZero == Int2V(0)

\* a * b and a / b on values without a 10^-16 component (the spline path
\* has none); a zero divisor gives inf or nan, which the model keeps as nan
VMul(a, b) == IF IsNaN(a) \/ IsNaN(b) THEN NaN ELSE Num(RMul(a.r, b.r), RZero)
VDiv(a, b) ==
    IF IsNaN(a) \/ IsNaN(b) \/ b.r = RZero THEN NaN
    ELSE Num(RMul(a.r, RNorm(b.r[2], b.r[1])), RZero)
Min3(a, b, c) == IF a <= b /\ a <= c THEN a ELSE IF b <= c THEN b ELSE c

(***************************************************************************)
(* Python values.                                                          *)
(***************************************************************************)
PyNone == [k \in {"None"} |-> "None"]

\* An exception leaving a function, and a normal return of `v`.
Raise(name) == [exc |-> name]
Return(v) == [exc |-> "none", val |-> v]
Raised(o) == o.exc # "none"

REDUCED == "reduced"
STANDARD == "standard"
MAXMIN == "max-min"
MAX == "max"

(***************************************************************************)
(* Sequences as numpy arrays and Python lists (index i of the code is      *)
(* position i + 1 here).                                                   *)
(***************************************************************************)
\* a[mask]: the entries of `a` at the positions in `mask`, in array order
MaskSelect(a, mask) ==
    LET F[i \in 0..Len(a)] ==
            IF i = 0 THEN <<>>
            ELSE IF i \in mask THEN Append(F[i - 1], a[i]) ELSE F[i - 1]
    IN  F[Len(a)]

\* np.zeros(n), [0.0] * n
zeros(n) == [j \in 1..n |-> VZero]

\* np.sum of a sequence of values (0.0 for the empty one)
VSum(s) ==
    LET F[i \in 0..Len(s)] == IF i = 0 THEN VZero ELSE VAdd(F[i - 1], s[i])
    IN  F[Len(s)]

\* np.min / np.max of a non-empty sequence of finite values
VMin(s) == CHOOSE m \in {s[i] : i \in 1..Len(s)} : \A i \in 1..Len(s) : VLeq(m, s[i])
VMax(s) == CHOOSE m \in {s[i] : i \in 1..Len(s)} : \A i \in 1..Len(s) : VLeq(s[i], m)

(***************************************************************************)
(* OptimalScalingInnerSolver.__init__ and get_default_options.             *)
(***************************************************************************)
\* 1e-16: one unit of the second component
MinGapDefault == Num(RZero, <<1, 1>>)

get_default_options ==
    [method |-> "reduced",
     reparameterized |-> TRUE,
     intervalConstraints |-> "max",
     minGap |-> MinGapDefault]

\* either of the two alone
IncompatibleOptions_or(options) ==
    options["method"] = STANDARD \/ options["reparameterized"]

\* the condition of the `if` that raises in __init__
IncompatibleOptions(options) ==
    options["method"] = STANDARD /\ options["reparameterized"]

\* The object after __init__(optimizer, options): st = "ok" when the
\* constructor returned, otherwise the exception it raised.  `arg` keeps the
\* argument as passed.
init_solver(options) ==
    LET opts == IF options = PyNone THEN get_default_options ELSE options
    IN  IF IncompatibleOptions(opts)
        THEN [st |-> "NotImplementedError", arg |-> options, options |-> opts,
              x_guesses |-> PyNone]
        ELSE [st |-> "ok", arg |-> options, options |-> opts, x_guesses |-> PyNone]

(***************************************************************************)
(* calculate_obj_function.                                                 *)
(***************************************************************************)
\* True in [...]
AnyFailed_true(x_inner_opt) ==
    TRUE \in {x_inner_opt[idx].success : idx \in 1..Len(x_inner_opt)}

\* False in [x_inner_opt[idx]['success'] for idx in range(len(x_inner_opt))]
AnyFailed(x_inner_opt) ==
    FALSE \in {x_inner_opt[idx].success : idx \in 1..Len(x_inner_opt)}

calculate_obj_function(x_inner_opt) ==
    IF AnyFailed(x_inner_opt)
    THEN [obj |-> NaN, warned |-> TRUE]
    ELSE [obj |-> VSum([idx \in 1..Len(x_inner_opt) |-> x_inner_opt[idx].fun]),
          warned |-> FALSE]

(***************************************************************************)
(* InnerParameter lists and simulations of the category-surrogate path.    *)
(* `sim` is the list of per-condition arrays laid end to end and x.ixs the *)
(* masks laid end to end the same way, kept as the set of selected         *)
(* positions: zip(sim, x.ixs) followed by sim_i[mask_i] visits exactly     *)
(* those entries in that order.                                            *)
(***************************************************************************)
get_sim_all(xs, sim) ==
    LET F[i \in 0..Len(xs)] ==
            IF i = 0 THEN <<>> ELSE F[i - 1] \o MaskSelect(sim, xs[i].ixs)
    IN  F[Len(xs)]

\* np.min / np.max raise ValueError on an empty array
get_min_max(xs, sim) ==
    LET sim_all == get_sim_all(xs, sim)
    IN  IF sim_all = <<>> THEN Raise("ValueError")
        ELSE Return([min_all |-> VMin(sim_all), max_all |-> VMax(sim_all)])

(***************************************************************************)
(* compute_interval_constraints.                                           *)
(***************************************************************************)
\* the value bound to eps
min_gap_eps(options) ==
    IF "minGap" \notin DOMAIN options THEN MinGapDefault ELSE options["minGap"]

\* width / (2 * len(xs) + 1)
interval_range_formula(width, K) == VDivInt(width, 2 * K + 1)

\* width / (2 * len(xs) - 1)
interval_gap_formula_2K(width, K) == VDivInt(width, 2 * K - 1)

\* width / (4 * (len(xs) - 1) + 1)
interval_gap_formula(width, K) == VDivInt(width, 4 * (K - 1) + 1)

\* the commented-out floor: if interval_gap < eps: interval_gap = eps
returned_gap_floored(interval_gap, eps) ==
    IF VLess(interval_gap, eps) THEN eps ELSE interval_gap

\* the second component of the returned pair: interval_gap + eps
returned_gap(interval_gap, eps) == VAdd(interval_gap, eps)

\* the two modes exchanged
interval_width_swapped(mode, mm) ==
    IF mode = MAXMIN THEN Return(mm.max_all)
    ELSE IF mode = MAX THEN Return(VSub(mm.max_all, mm.min_all))
    ELSE Raise("ValueError")

\* any other mode taken for 'max'
interval_width_defaulting(mode, mm) ==
    IF mode = MAXMIN THEN Return(VSub(mm.max_all, mm.min_all))
    ELSE Return(mm.max_all)

\* the branch on options['intervalConstraints']: the width the two formulas
\* divide, or the ValueError of the else branch
interval_width(mode, mm) ==
    IF mode = MAXMIN THEN Return(VSub(mm.max_all, mm.min_all))
    ELSE IF mode = MAX THEN Return(mm.max_all)
    ELSE Raise("ValueError")

compute_interval_constraints(xs, sim, options) ==
    LET eps == min_gap_eps(options)
        mm == get_min_max(xs, sim)
    IN  IF Raised(mm) THEN mm
        ELSE IF "intervalConstraints" \notin DOMAIN options THEN Raise("KeyError")
        ELSE LET width == interval_width(options["intervalConstraints"], mm.val)
             IN  IF Raised(width) THEN width
                 ELSE Return([interval_range |-> interval_range_formula(width.val, Len(xs)),
                              interval_gap |->
                                  returned_gap(interval_gap_formula(width.val, Len(xs)), eps)])

(***************************************************************************)
(* y2xi and xi2y.  Both start from an array of NaN and fill one slot per   *)
(* InnerParameter of xs, in the order of xs.                               *)
(***************************************************************************)
NaNArray(n) == [j \in 1..n |-> NaN]

y2xi(optimal_scaling_bounds, xs, interval_gap, interval_range) ==
    LET y == optimal_scaling_bounds
        F[i \in 0..Len(xs)] ==
            IF i = 0 THEN NaNArray(Len(y))
            ELSE LET c == xs[i].category
                 IN  IF c = 1
                     THEN [F[i - 1] EXCEPT ![c] = VSub(y[c], interval_range)]
                     ELSE [F[i - 1] EXCEPT ![c] =
                              VSub(VSub(VSub(y[c], y[c - 1]), interval_gap), interval_range)]
    IN  F[Len(xs)]

\* optimal_scaling_bounds[x_category - 2]: the slot of the category below in
\* the array being filled, NaN as long as that category has not been visited
xi2y_prev_bound(filled, c) == filled[c - 1]

xi2y(optimal_scaling_bounds_reparameterized, xs, interval_gap, interval_range) ==
    LET xi == optimal_scaling_bounds_reparameterized
        F[i \in 0..Len(xs)] ==
            IF i = 0 THEN NaNArray(Len(xi))
            ELSE LET c == xs[i].category
                 IN  IF c = 1
                     THEN [F[i - 1] EXCEPT ![c] = VAdd(interval_range, xi[c])]
                     ELSE [F[i - 1] EXCEPT ![c] =
                              VAdd(VAdd(VAdd(xi[c], interval_gap), interval_range),
                                   xi2y_prev_bound(F[i - 1], c))]
    IN  F[Len(xs)]

(***************************************************************************)
(* The spline path: get_sim_all_for_quantitative, get_spline_domain,       *)
(* get_monotonicity_constraints, get_spline_inner_options.                 *)
(* sim[condition][time][observable]; simulation_indices[group][condition]  *)
(* is the list of time indices of the group in that condition.             *)
(***************************************************************************)
Flatten(ss) ==
    LET F[i \in 0..Len(ss)] == IF i = 0 THEN <<>> ELSE F[i - 1] \o ss[i]
    IN  F[Len(ss)]

\* gr = int(gr) - 1 indexes simulation_indices and the observable axis of sim
get_sim_all_for_quantitative(gr, sim, simulation_indices) ==
    IF gr \notin 1..Len(simulation_indices) THEN Raise("IndexError")
    ELSE LET ixs == simulation_indices[gr]
             bad == \E c \in 1..Len(ixs) :
                        \/ c > Len(sim)
                        \/ \E k \in 1..Len(ixs[c]) :
                               \/ ixs[c][k] \notin 1..Len(sim[c])
                               \/ gr > Len(sim[c][ixs[c][k]])
         IN  IF bad THEN Raise("IndexError")
             ELSE Return(Flatten([c \in 1..Len(ixs) |->
                             [k \in 1..Len(ixs[c]) |-> sim[c][ixs[c][k]][gr]]]))

\* element i of a numpy array, i counted from 0 and from the end when
\* negative
array_at(array, i) ==
    IF i >= 0 /\ i < Len(array) THEN Return(array[i + 1])
    ELSE IF i < 0 /\ -i <= Len(array) THEN Return(array[Len(array) + i + 1])
    ELSE Raise("IndexError")

\* the first observable's column whatever the group
sensitivity_at_first_column(sy, condition_indx, time_indx, par_idx, gr) ==
    array_at(sy[condition_indx][time_indx], par_idx).val[1]

\* sy[condition_indx][time_indx][par_idx][gr]
sensitivity_at(sy, condition_indx, time_indx, par_idx, gr) ==
    array_at(sy[condition_indx][time_indx], par_idx).val[gr]

\* gr = int(gr) - 1 indexes simulation_indices and the observable axis of
\* sy; sy[condition][time][parameter][observable], par_idx counted from 0
get_sy_all_for_quantitative(gr, sy, par_idx, simulation_indices) ==
    IF gr \notin 1..Len(simulation_indices) THEN Raise("IndexError")
    ELSE LET ixs == simulation_indices[gr]
             bad == \E c \in 1..Len(ixs) :
                        \/ c > Len(sy)
                        \/ \E k \in 1..Len(ixs[c]) :
                               \/ ixs[c][k] \notin 1..Len(sy[c])
                               \/ Raised(array_at(sy[c][ixs[c][k]], par_idx))
                               \/ gr > Len(array_at(sy[c][ixs[c][k]], par_idx).val)
         IN  IF bad THEN Raise("IndexError")
             ELSE Return(Flatten([c \in 1..Len(ixs) |->
                             [k \in 1..Len(ixs[c]) |->
                                 sensitivity_at(sy, c, ixs[c][k], par_idx, gr)]]))

CeilHalf(K) == (K + 1) \div 2
FloorHalf(K) == K \div 2

\* min_all - range_all/(math.ceil(K/2)-2) < 0 on numpy floats: a zero
\* divisor gives inf for a positive range (the test is then true) and nan
\* for a zero range (the test is then false)
spline_domain_below_zero(min_all, range_all, K) ==
    IF CeilHalf(K) - 2 = 0
    THEN VLess(VZero, range_all)
    ELSE VLess(VSub(min_all, VDivInt(range_all, CeilHalf(K) - 2)), VZero)

\* c_1 = min_all - 0.5*delta_c
c_1_below_zero_margin(min_all, delta_c) == VSub(min_all, VScale(delta_c, <<1, 2>>))

\* the first knot of the first branch: c_1 = delta_c
c_1_below_zero(min_all, delta_c) == delta_c

get_spline_domain(sim_all) ==
    IF sim_all = <<>> THEN Raise("IndexError")
    ELSE LET K == Len(sim_all)
             min_all == VMin(sim_all)
             max_all == VMax(sim_all)
             range_all == VSub(max_all, min_all)
         IN  IF spline_domain_below_zero(min_all, range_all, K)
             THEN LET N == FloorHalf(K)
                      delta_c == VScale(max_all, RNorm(2, 2 * N - 1))
                  IN  Return([N |-> N, delta_c |-> delta_c,
                              c_1 |-> c_1_below_zero(min_all, delta_c)])
             ELSE LET N == CeilHalf(K)
                      delta_c == IF N - 2 = 0 THEN NaN ELSE VDivInt(range_all, N - 2)
                  IN  Return([N |-> N, delta_c |-> delta_c,
                              c_1 |-> VSub(min_all, VScale(delta_c, <<1, 2>>))])

\* math.ceil of a rational
Ceil(q) == -((-q[1]) \div q[2])

\* n = math.ceil((y_k - c_1)/ delta_c) + 1 on numpy floats: a zero delta_c
\* gives inf or nan, and so does a nan delta_c; math.ceil raises on both
segment_ceil(y_k, delta_c, c_1) ==
    LET num == VSub(y_k, c_1)
    IN  IF IsNaN(num) \/ IsNaN(delta_c) THEN Raise("ValueError")
        ELSE IF delta_c.r = RZero
        THEN IF num.r = RZero THEN Raise("ValueError") ELSE Raise("OverflowError")
        ELSE Return(Ceil(RMul(num.r, RNorm(delta_c.r[2], delta_c.r[1]))) + 1)

\* if(n>N): n=N+1
segment_clip(n, N) == IF n > N THEN N + 1 ELSE n

\* the positions i and i-1 (i = n-1) of Jacobian and rhs that the loop body
\* of spline_get_Jacobian writes for a datapoint of segment n
jacobian_positions(n, N) ==
    (IF n < N + 1 THEN {n - 1} ELSE {}) \cup (IF n > 1 THEN {n - 2} ELSE {})

\* the segment n of one datapoint after the clipping, or the error of math.ceil
segment_of(y_k, dom) ==
    LET ceil == segment_ceil(y_k, dom.delta_c, dom.c_1)
    IN  IF Raised(ceil) THEN ceil ELSE Return(segment_clip(ceil.val, dom.N))

\* the loop of spline_get_Jacobian over zip(sim_all, measurements), given
\* the segments of the datapoints: the first datapoint whose segment is an
\* error, or whose position is outside -N..N-1 (an IndexError), ends it
jacobian_loop(N, segments) ==
    LET bad(k) == \/ Raised(segments[k])
                  \/ \E i \in jacobian_positions(segments[k].val, N) : i \notin (-N)..(N - 1)
        failing == {k \in 1..Len(segments) : bad(k)}
    IN  IF failing # {}
        THEN LET k == CHOOSE k \in failing : \A j \in failing : k <= j
             IN  IF Raised(segments[k]) THEN segments[k] ELSE Raise("IndexError")
        ELSE Return([N |-> N,
                     n |-> [k \in 1..Len(segments) |-> segments[k].val],
                     positions |-> [k \in 1..Len(segments) |->
                                       jacobian_positions(segments[k].val, N)]])

\* y_k - c_1 - (n-2)*delta_c and c_1 + (n-1)*delta_c - y_k
above_lower_knot(y_k, n, dom) ==
    VSub(VSub(y_k, dom.c_1), VScale(dom.delta_c, RNorm(n - 2, 1)))
below_upper_knot(y_k, n, dom) ==
    VSub(VAdd(dom.c_1, VScale(dom.delta_c, RNorm(n - 1, 1))), y_k)

\* what the loop body of spline_get_Jacobian adds to Jacobian for a
\* datapoint of segment n (i = n-1): the entries [row][col] and the amounts
jacobian_additions(y_k, n, dom) ==
    LET N == dom.N
        i == n - 1
        a == above_lower_knot(y_k, n, dom)
        b == below_upper_knot(y_k, n, dom)
    IN  (IF n < N + 1
         THEN (IF n > 1 THEN <<[row |-> i, col |-> i - 1, val |-> VMul(a, b)]>> ELSE <<>>)
              \o <<[row |-> i, col |-> i, val |-> VMul(a, a)]>>
         ELSE <<>>)
        \o (IF n > 1 /\ n < N + 1
            THEN <<[row |-> i - 1, col |-> i - 1, val |-> VMul(b, b)]>>
                 \o (IF n < N + 1
                     THEN <<[row |-> i - 1, col |-> i, val |-> VMul(a, b)]>> ELSE <<>>)
            ELSE <<>>)
        \o (IF n = N + 1
            THEN <<[row |-> i - 1, col |-> i - 1, val |-> VMul(dom.delta_c, dom.delta_c)]>>
            ELSE <<>>)

\* np.zeros((N,N)) after the additions of all datapoints, rows and columns
\* counted from the end when negative, divided by delta_c**2
accumulate_and_divide(N, additions, delta_c) ==
    LET place(i) == IF i < 0 THEN N + i + 1 ELSE i + 1
        sum(all) ==
            LET F[k \in 0..Len(all)] ==
                    IF k = 0 THEN [r \in 1..N |-> [c \in 1..N |-> VZero]]
                    ELSE [F[k - 1] EXCEPT ![place(all[k].row)][place(all[k].col)] =
                             VAdd(@, all[k].val)]
            IN  F[Len(all)]
    IN  CHOOSE matrix \in
            {[r \in 1..N |-> [c \in 1..N |-> VDiv(total[r][c], square)]] :
                total \in {sum(Flatten(additions))},
                square \in {VMul(delta_c, delta_c)}} : TRUE

\* the loop of spline_get_Jacobian over zip(sim_all, measurements): the
\* error that ends it, or per datapoint the segment n and the positions
\* written; dom is N, delta_c, c_1 = get_spline_domain(sim_all)
spline_get_Jacobian_loop(gr, sim_all, measurements, options) ==
    LET len == IF Len(sim_all) < Len(measurements) THEN Len(sim_all) ELSE Len(measurements)
    IN  CHOOSE out \in
            {IF Raised(dom) THEN dom
             ELSE jacobian_loop(dom.val.N, [k \in 1..len |-> segment_of(sim_all[k], dom.val)]) :
                dom \in {get_spline_domain(sim_all)}} : TRUE

\* spline_get_Jacobian: the error of its loop, or the segments, the
\* positions written and the matrix Jacobian returned
spline_get_Jacobian(gr, sim_all, measurements, options) ==
    LET len == IF Len(sim_all) < Len(measurements) THEN Len(sim_all) ELSE Len(measurements)
    IN  CHOOSE out \in
            {IF Raised(loop) THEN loop
             ELSE Return([N |-> loop.val.N, n |-> loop.val.n,
                          positions |-> loop.val.positions,
                          Jacobian |-> accumulate_and_divide(
                              loop.val.N,
                              [k \in 1..len |->
                                  jacobian_additions(sim_all[k], loop.val.n[k], dom.val)],
                              dom.val.delta_c)]) :
                loop \in {spline_get_Jacobian_loop(gr, sim_all, measurements, options)},
                dom \in {get_spline_domain(sim_all)}} : TRUE

\* what the loop body of spline_get_dxi_dtheta adds to Jacobian_derivative
\* for a datapoint of segment n (i = n-1); w is 1/w of the argument.  The
\* third branch follows `if(n==N+1)` and `elif(n<N+1)`
jacobian_derivative_additions(y_k, n, dom, w) ==
    LET N == dom.N
        i == n - 1
        a == above_lower_knot(y_k, n, dom)
        b == below_upper_knot(y_k, n, dom)
        twice_w(v) == VScale(VMul(w, v), <<2, 1>>)
    IN  IF n = N + 1
        THEN <<[row |-> i - 1, col |-> i - 1, val |-> twice_w(VMul(dom.delta_c, dom.delta_c))]>>
        ELSE IF n < N + 1
        THEN (IF n > 1 THEN <<[row |-> i, col |-> i - 1, val |-> twice_w(VMul(a, b))]>>
              ELSE <<>>)
             \o <<[row |-> i, col |-> i, val |-> twice_w(VMul(a, a))]>>
        ELSE IF n > 1
        THEN <<[row |-> i - 1, col |-> i - 1, val |-> twice_w(VMul(b, b))]>>
             \o (IF n < N + 1
                 THEN <<[row |-> i - 1, col |-> i, val |-> twice_w(VMul(a, b))]>> ELSE <<>>)
        ELSE <<>>

\* spline_get_dxi_dtheta, the matrix Jacobian_derivative that becomes the
\* leading N x N block of lhs.  The right-hand side and the solution
\* dxi_dtheta of the linear system are numbers this module does not compute.
\* The loop writes the positions spline_get_Jacobian writes, so it fails
\* where that one fails
spline_get_dxi_dtheta(gr, sim_all, sy_all, measurements, xi, w, w_dot, C, mu, options) ==
    LET len == Min3(Len(sim_all), Len(measurements), Len(sy_all))
    IN  IF w = VZero THEN Raise("ZeroDivisionError")
        ELSE CHOOSE out \in
            {IF Raised(dom) THEN dom
             ELSE CHOOSE o \in
                     {IF Raised(loop) THEN loop
                      ELSE Return([N |-> loop.val.N, n |-> loop.val.n,
                                   Jacobian_derivative |-> accumulate_and_divide(
                                       dom.val.N,
                                       [k \in 1..len |->
                                           jacobian_derivative_additions(
                                               sim_all[k], loop.val.n[k], dom.val,
                                               VDiv(Int2V(1), w))],
                                       dom.val.delta_c)]) :
                         loop \in {jacobian_loop(dom.val.N,
                                       [k \in 1..len |-> segment_of(sim_all[k], dom.val)])}} :
                     TRUE :
                dom \in {get_spline_domain(sim_all)}} : TRUE

\* the value the loop body of obj_spline subtracts from z_k for a datapoint
\* of segment n (i = n-1), or the absence of any: none of the three branches
\* is taken for n < 1
obj_spline_surrogate(y_k, n, optimal_xi, dom) ==
    LET N == dom.N
        i == n - 1
    IN  IF n < N + 1 /\ n > 1
        THEN IF Raised(array_at(optimal_xi, i)) \/ Raised(array_at(optimal_xi, i - 1))
             THEN Raise("IndexError")
             ELSE Return(VAdd(VDiv(VMul(VSub(VSub(y_k, dom.c_1),
                                              VScale(dom.delta_c, RNorm(n - 2, 1))),
                                         VSub(array_at(optimal_xi, i).val,
                                              array_at(optimal_xi, i - 1).val)),
                                   dom.delta_c),
                              array_at(optimal_xi, i - 1).val))
        ELSE IF n = N + 1
        THEN array_at(optimal_xi, i - 1)
        ELSE IF n = 1
        THEN IF Raised(array_at(optimal_xi, i)) THEN Raise("IndexError")
             ELSE Return(VDiv(VMul(y_k, array_at(optimal_xi, i).val), dom.c_1))
        ELSE Return(PyNone)

\* one pass of the loop of obj_spline: the segment n, the stop in the
\* debugger (n==1 and c_1 != delta_c, breakpoint()), and the residual
\* z_k - surrogate that is squared and added, if any.  What follows the
\* stop is up to whoever runs the process: the debugger is left with an
\* error (bdb.BdbQuit, also without a terminal), or the loop is continued
obj_spline_term(y_k, z_k, optimal_xi, dom, debugger) ==
    CHOOSE out \in
        {IF Raised(ceil) THEN ceil
         ELSE IF ceil.val = 1 /\ dom.c_1 # dom.delta_c /\ debugger = "quit"
         THEN Raise("BdbQuit")
         ELSE CHOOSE t \in
                 {IF Raised(s) THEN s
                  ELSE Return([n |-> segment_clip(ceil.val, dom.N),
                               surrogate |-> s.val,
                               residual |-> IF s.val = PyNone THEN PyNone
                                            ELSE VSub(z_k, s.val)]) :
                     s \in {obj_spline_surrogate(y_k, segment_clip(ceil.val, dom.N),
                                                 optimal_xi, dom)}} : TRUE :
            ceil \in {segment_ceil(y_k, dom.delta_c, dom.c_1)}} : TRUE

\* obj_spline(gr, optimal_xi, sim_all, w, measurements, options): the
\* passes of the loop over zip(sim_all, measurements), the sum obj of the
\* squared residuals, and the divisor w = np.sum(np.abs(sim_all)) + 1e-8 of
\* the value returned, obj/w (abs_sum is np.sum(np.abs(sim_all)));
\* debugger is what follows a stop at breakpoint(), "quit" or "continue"
obj_spline(gr, optimal_xi, sim_all, w, measurements, options, debugger) ==
    LET len == IF Len(sim_all) < Len(measurements) THEN Len(sim_all) ELSE Len(measurements)
        abs(v) == IF VLess(v, VZero) THEN VNeg(v) ELSE v
    IN  CHOOSE out \in
            {IF Raised(dom) THEN dom
             ELSE CHOOSE o \in
                     {LET failing == {k \in 1..len : Raised(terms[k])}
                      IN  IF failing # {}
                          THEN terms[CHOOSE k \in failing : \A j \in failing : k <= j]
                          ELSE Return([dom |-> dom.val,
                                       terms |-> [k \in 1..len |-> terms[k].val],
                                       obj |-> VSum([k \in 1..len |->
                                                  IF terms[k].val.residual = PyNone THEN VZero
                                                  ELSE VMul(terms[k].val.residual,
                                                            terms[k].val.residual)]),
                                       abs_sum |-> VSum([k \in 1..Len(sim_all) |->
                                                            abs(sim_all[k])])]) :
                         terms \in {[k \in 1..len |->
                                       obj_spline_term(sim_all[k], measurements[k],
                                                       optimal_xi, dom.val, debugger)]}} : TRUE :
                dom \in {get_spline_domain(sim_all)}} : TRUE

\* get_bounds_for_category(x, optimal_scaling_bounds, interval_gap, options):
\* the pair x_upper, x_lower
get_bounds_for_category(x, optimal_scaling_bounds, interval_gap, options) ==
    LET x_category == x.category
        at(i) == array_at(optimal_scaling_bounds, i)
    IN  IF options["method"] = REDUCED
        THEN IF Raised(at(x_category - 1)) THEN Raise("IndexError")
             ELSE IF x_category = 1
             THEN Return([x_upper |-> at(x_category - 1).val, x_lower |-> VZero])
             ELSE IF x_category > 1
             THEN IF Raised(at(x_category - 2)) THEN Raise("IndexError")
                  ELSE Return([x_upper |-> at(x_category - 1).val,
                               x_lower |-> VAdd(at(x_category - 2).val,
                                                VScale(interval_gap, <<1, 2>>))])
             ELSE Raise("ValueError")
        ELSE IF options["method"] = STANDARD
        THEN IF Raised(at(2 * x_category - 2)) \/ Raised(at(2 * x_category - 1))
             THEN Raise("IndexError")
             ELSE Return([x_upper |-> at(2 * x_category - 1).val,
                          x_lower |-> at(2 * x_category - 2).val])
        ELSE Raise("NotImplementedError")

\* the N x N matrix a and the vector b of the constraint a.dot(x) - b >= 0
get_monotonicity_constraints(N) ==
    [type |-> "ineq",
     a |-> [i \in 1..N |-> [j \in 1..N |->
               IF j = i THEN 1 ELSE IF j = i - 1 THEN -1 ELSE 0]],
     b |-> [i \in 1..N |-> VZero]]

\* np.linspace(start, stop, num)[1:]
linspace_tail(start, stop, num) ==
    [j \in 1..(num - 1) |->
        VAdd(start, VScale(VSub(stop, start), RNorm(j, num - 1)))]

SLSQP_options == [maxiter |-> 2000, ftol_exp |-> -10, disp |-> TRUE]

get_spline_inner_options(gr, measurements, options, sim_all) ==
    LET dom == get_spline_domain(sim_all)
    IN  IF Raised(dom) THEN dom
        ELSE IF measurements = <<>> THEN Raise("IndexError")
        ELSE LET N == dom.val.N
                 min_all == VMin(measurements)
                 max_all == VMax(measurements)
                 range_all == VSub(max_all, min_all)
                 lo == VSub(min_all, VScale(range_all, <<3, 10>>))
             IN  Return([x0 |-> linspace_tail(IF VLess(lo, VZero) THEN VZero ELSE lo,
                                              VAdd(max_all, VScale(range_all, <<3, 10>>)),
                                              N + 1),
                         method |-> "SLSQP",
                         options |-> SLSQP_options,
                         constraints |-> get_monotonicity_constraints(N)])

\* the first guess again
retry_x0_keep(x0) == x0

\* the initial guess of the second invocation: np.zeros(len(inner_options['x0']))
retry_x0(x0) == zeros(Len(x0))

(***************************************************************************)
(* The category-surrogate path: get_constraints_for_optimization,          *)
(* get_inner_options and optimize_surrogate_data up to its first minimize. *)
(***************************************************************************)
Bidiagonal(n) ==
    [i \in 1..n |-> [j \in 1..n |-> IF j = i THEN 1 ELSE IF j = i - 1 THEN -1 ELSE 0]]

\* b = interval_range in every row
reduced_constraints_range_only(num_categories, interval_range, interval_gap) ==
    [type |-> "ineq",
     a |-> Bidiagonal(num_categories),
     b |-> [i \in 1..num_categories |-> interval_range]]

\* the REDUCED branch: b[0] = interval_range, b[1:] = interval_range + interval_gap
reduced_constraints(num_categories, interval_range, interval_gap) ==
    [type |-> "ineq",
     a |-> Bidiagonal(num_categories),
     b |-> [i \in 1..num_categories |->
              IF i = 1 THEN interval_range ELSE VAdd(interval_range, interval_gap)]]

\* a and b stay unbound for a method that is neither of the two
get_constraints_for_optimization(xs, sim, options) ==
    LET num_categories == Len(xs)
        ic == compute_interval_constraints(xs, sim, options)
    IN  IF Raised(ic) THEN ic
        ELSE IF options["method"] = REDUCED
        THEN Return(reduced_constraints(num_categories, ic.val.interval_range,
                                        ic.val.interval_gap))
        ELSE IF options["method"] = STANDARD
        THEN Return([type |-> "ineq",
                     a |-> Bidiagonal(2 * num_categories),
                     b |-> [i \in 1..(2 * num_categories) |->
                              IF i = 1 THEN VZero
                              ELSE IF i % 2 = 0 THEN ic.val.interval_range
                              ELSE ic.val.interval_gap]])
        ELSE Return([type |-> "ineq", a |-> "unbound", b |-> "unbound"])

\* np.linspace(start, stop, num) for num >= 1
linspace(start, stop, num) ==
    [j \in 1..num |->
        IF num = 1 THEN start
        ELSE VAdd(start, VScale(VSub(stop, start), RNorm(j - 1, num - 1)))]

VMax2(a, b) == IF VLess(a, b) THEN b ELSE a

LBFGSB_options == [maxiter |-> 2000, ftol_exp |-> -10]

\* the branch on options['method']: parameter_length and x0, or the error
inner_x0(method, num, mm, interval_range, interval_gap) ==
    IF method = REDUCED
    THEN Return([parameter_length |-> num,
                 x0 |-> linspace(VMax2(mm.min_all, interval_range),
                                 VAdd(mm.max_all,
                                      VScale(VAdd(interval_range, interval_gap), <<num, 1>>)),
                                 num)])
    ELSE IF method = STANDARD
    THEN Return([parameter_length |-> 2 * num,
                 x0 |-> linspace(VZero, VAdd(mm.max_all, interval_range), 2 * num)])
    ELSE Raise("NotImplementedError")

get_inner_options(options, xs, sim, interval_range, interval_gap) ==
    LET mm == get_min_max(xs, sim)
    IN  IF Raised(mm) THEN mm
        ELSE LET g == inner_x0(options["method"], Len(xs), mm.val, interval_range, interval_gap)
             IN  IF Raised(g) THEN g
                 ELSE IF options["reparameterized"]
                 THEN LET upper == VAdd(mm.val.max_all,
                                        VScale(VAdd(interval_range, interval_gap),
                                               <<g.val.parameter_length, 1>>))
                      IN  Return([x0 |-> y2xi(g.val.x0, xs, interval_gap, interval_range),
                                  method |-> "L-BFGS-B",
                                  options |-> LBFGSB_options,
                                  bounds |-> [lb |-> zeros(g.val.parameter_length),
                                              ub |-> [j \in 1..g.val.parameter_length |-> upper]]])
                 ELSE LET cons == get_constraints_for_optimization(xs, sim, options)
                      IN  IF Raised(cons) THEN cons
                          ELSE Return([x0 |-> g.val.x0,
                                       method |-> "SLSQP",
                                       options |-> SLSQP_options,
                                       constraints |-> cons.val])

\* optimize_surrogate_data up to the first minimize: the keyword arguments
osd_prepare(xs, sim, options) ==
    LET ic == compute_interval_constraints(xs, sim, options)
    IN  IF Raised(ic) THEN ic
        ELSE get_inner_options(options, xs, sim, ic.val.interval_range, ic.val.interval_gap)

(***************************************************************************)
(* Hard constraints: get_bounds_from_hard_constraints.  A measurement is a *)
(* string, the sequence of its characters; the strings of the model are    *)
(* over digits, '-', '.', '<', '>', ',', '=', ' ' and the letter 'x', so   *)
(* the forms of float() with exponents, underscores, inf or nan do not     *)
(* arise.                                                                  *)
(***************************************************************************)
\* measurement.replace(" ", "")
str_replace_spaces(str) == SelectSeq(str, LAMBDA ch : ch # " ")

\* ch in str
str_contains(str, ch) == \E i \in 1..Len(str) : str[i] = ch

\* str.split(sep)
str_split(str, sep) ==
    LET P[i \in 0..Len(str)] ==
            IF i = 0 THEN << <<>> >>
            ELSE IF str[i] = sep THEN Append(P[i - 1], <<>>)
            ELSE [P[i - 1] EXCEPT ![Len(P[i - 1])] = Append(@, str[i])]
    IN  P[Len(str)]

\* str[1:]
str_from1(str) == SubSeq(str, 2, Len(str))

DigitVal ==
    [ch \in {"0", "1", "2", "3", "4", "5", "6", "7", "8", "9"} |->
        CASE ch = "0" -> 0 [] ch = "1" -> 1 [] ch = "2" -> 2 [] ch = "3" -> 3
          [] ch = "4" -> 4 [] ch = "5" -> 5 [] ch = "6" -> 6 [] ch = "7" -> 7
          [] ch = "8" -> 8 [] ch = "9" -> 9]

Pow10(n) == LET P[i \in 0..n] == IF i = 0 THEN 1 ELSE 10 * P[i - 1] IN P[n]

\* float(str): an optional sign, digits with at most one point and at least
\* one digit; anything else is a ValueError
float(str) ==
    LET signed == Len(str) > 0 /\ str[1] \in {"-", "+"}
        body == IF signed THEN str_from1(str) ELSE str
        points == {i \in 1..Len(body) : body[i] = "."}
        digits == SelectSeq(body, LAMBDA ch : ch # ".")
        D[i \in 0..Len(digits)] == IF i = 0 THEN 0 ELSE 10 * D[i - 1] + DigitVal[digits[i]]
        frac == IF points = {} THEN 0 ELSE Len(body) - (CHOOSE i \in points : TRUE)
    IN  IF \/ \E i \in 1..Len(body) : body[i] \notin DOMAIN DigitVal \cup {"."}
           \/ Cardinality(points) > 1
           \/ digits = <<>>
        THEN Raise("ValueError")
        ELSE Return(V((IF signed /\ str[1] = "-" THEN -1 ELSE 1) * D[Len(digits)],
                      Pow10(frac)))

\* lower_constraint=-1, upper_constraint=-1: the value that stands for "not given"
NoConstraint == Int2V(-1)

\* the 1e-6 added to a given lower bound
LowerOffset == V(1, 1000000)

\* the if / elif / elif on the measurement: the pair (lower_constraint,
\* upper_constraint), or the error of float() or of split(',')[1]
parse_constraints(measurement) ==
    IF str_contains(measurement, "<") /\ str_contains(measurement, ">")
    THEN LET parts == str_split(measurement, ",")
             lower == float(str_from1(parts[1]))
         IN  IF Raised(lower) THEN lower
             ELSE IF Len(parts) < 2 THEN Raise("IndexError")
             ELSE LET upper == float(str_from1(parts[2]))
                  IN  IF Raised(upper) THEN upper
                      ELSE Return([lower |-> lower.val, upper |-> upper.val])
    ELSE IF str_contains(measurement, "<")
    THEN LET upper == float(str_from1(measurement))
         IN  IF Raised(upper) THEN upper
             ELSE Return([lower |-> NoConstraint, upper |-> upper.val])
    ELSE IF str_contains(measurement, ">")
    THEN LET lower == float(str_from1(measurement))
         IN  IF Raised(lower) THEN lower
             ELSE Return([lower |-> lower.val, upper |-> NoConstraint])
    ELSE Return([lower |-> NoConstraint, upper |-> NoConstraint])

get_bounds_from_hard_constraints(x, hard_constraints, max_upper, interval_gap) ==
    LET x_category == x.category
        constraint == SelectSeq(hard_constraints, LAMBDA row : row.category = x_category)
    IN  IF constraint = <<>> THEN Raise("IndexError")
        ELSE LET parsed == parse_constraints(str_replace_spaces(constraint[1].measurement))
             IN  IF Raised(parsed) THEN parsed
                 ELSE LET lower_constraint == parsed.val.lower
                          upper_constraint == parsed.val.upper
                          x_upper == IF upper_constraint = NoConstraint THEN max_upper
                                     ELSE upper_constraint
                      IN  IF lower_constraint # NoConstraint
                          THEN Return([x_upper |-> x_upper,
                                       x_lower |-> VAdd(lower_constraint, LowerOffset)])
                          ELSE IF x_category = 1
                          THEN Return([x_upper |-> x_upper, x_lower |-> VZero])
                          ELSE Raise("UnboundLocalError")

(***************************************************************************)
(* pypesto.optdesign.DesignProblem.  The model takes an experiment_list    *)
(* without new observables and conditions, for which get_super_model       *)
(* returns the model it is given and write_super_condition_df returns      *)
(* without a change.  A list of strings is a sequence, a pypesto Result    *)
(* is a record whose optimize_result holds the list of the x of its starts.*)
(* An optional argument is None or Given(value).                           *)
(***************************************************************************)
Given(v) == [value |-> v]
default_criteria_list ==
    << "det", "trace", "ratio", "rank", "eigmin", "number_good_eigvals",
       "det_modified", "trace_modified", "ratio_modified", "rank_modified",
       "eigmin_modified", "number_good_eigvals_modified" >>
okay_criteria ==
    { "det", "det_modified", "eigmin", "eigmin_modified", "trace", "trace_modified",
      "ratio", "ratio_modified", "rank", "rank_modified", "number_good_eigvals",
      "number_good_eigvals_modified", "trace_log", "trace_log_modified" }
\* '_modified' in crit, and crit.replace("_modified", ""), for the names the
\* model passes
without_modified ==
    [crit \in {"det_modified", "trace_modified", "ratio_modified", "rank_modified",
               "eigmin_modified", "number_good_eigvals_modified", "trace_log_modified"} |->
        CASE crit = "det_modified" -> "det"
          [] crit = "trace_modified" -> "trace"
          [] crit = "ratio_modified" -> "ratio"
          [] crit = "rank_modified" -> "rank"
          [] crit = "eigmin_modified" -> "eigmin"
          [] crit = "number_good_eigvals_modified" -> "number_good_eigvals"
          [] crit = "trace_log_modified" -> "trace_log"]
is_modified(crit) == crit \in DOMAIN without_modified

\* the branch `if initial_x is None:` of __init__: the statement under
\* `if result is None:` builds a ValueError and drops it, then
\* initial_x = result.optimize_result.get_for_key('x')[0] is run whatever
\* result is.  `constructed` lists the exceptions built, `accessed` the
\* attributes of result read
initial_x_from_result(result) ==
    LET constructed == IF result = PyNone THEN <<"ValueError">> ELSE <<>>
    IN  IF result = PyNone
        THEN [out |-> Raise("AttributeError"), constructed |-> constructed,
              accessed |-> <<"optimize_result">>]
        ELSE IF result.optimize_result.x = <<>>
        THEN [out |-> Raise("IndexError"), constructed |-> constructed,
              accessed |-> <<"optimize_result">>]
        ELSE [out |-> Return(result.optimize_result.x[1]), constructed |-> constructed,
              accessed |-> <<"optimize_result">>]

\* check_criteria, on the attributes set so far: the KeyError, or the
\* value of const_for_hess afterwards
check_criteria(self) ==
    IF ~({self.criteria_list[i] : i \in 1..Len(self.criteria_list)} \subseteq okay_criteria)
    THEN Raise("KeyError")
    ELSE IF self.modified_criteria # <<>> /\ self.const_for_hess = PyNone
    THEN Return(V(1, 10000))
    ELSE Return(self.const_for_hess)

\* DesignProblem.__init__: the error it ends with, or the attributes of the
\* object
DesignProblem_init(result, initial_x, criteria_list, const_for_hess, n_save_combi_result) ==
    LET criteria ==
            IF criteria_list = PyNone THEN default_criteria_list ELSE criteria_list.value
        from_result == initial_x_from_result(result)
        x == IF initial_x = PyNone THEN from_result.out ELSE Return(initial_x.value)
        noted == IF initial_x = PyNone
                 THEN [constructed |-> from_result.constructed,
                       accessed |-> from_result.accessed]
                 ELSE [constructed |-> <<>>, accessed |-> <<>>]
        modified == SelectSeq(criteria, is_modified)
        self == [result |-> result,
                 initial_x |-> x.val,
                 criteria_list |-> criteria,
                 chosen_criteria |-> "det",
                 const_for_hess |-> const_for_hess,
                 number_of_measurements |-> 1,
                 n_save_combi_result |->
                     IF n_save_combi_result = PyNone THEN 20 ELSE n_save_combi_result.value,
                 modified_criteria |-> [i \in 1..Len(modified) |-> without_modified[modified[i]]],
                 non_modified_criteria |-> SelectSeq(criteria, LAMBDA c : ~is_modified(c))]
    IN  IF Raised(x) THEN [out |-> x, noted |-> noted]
        ELSE IF Raised(check_criteria(self)) THEN [out |-> check_criteria(self), noted |-> noted]
        ELSE [out |-> Return([self EXCEPT !.const_for_hess = check_criteria(self).val]),
              noted |-> noted]

(***************************************************************************)
(* Inputs.                                                                 *)
(***************************************************************************)
\* all sequences of length 0..n over S, and those without repetition
SeqUpTo(S, n) == UNION {[1..k -> S] : k \in 0..n}
Distinct(q) == \A i, j \in 1..Len(q) : q[i] = q[j] => i = j

\* options records handed to the constructor ("spline" is a method name the
\* module does not know)
MethodNames == {REDUCED, STANDARD, "spline"}
SolverOptions ==
    {PyNone} \cup
    {[method |-> m, reparameterized |-> r, intervalConstraints |-> MAX, minGap |-> MinGapDefault] :
        m \in MethodNames, r \in BOOLEAN}

\* per-group results as minimize returns them
FunVals == {Int2V(0), V(1, 2), Int2V(2)}
ResultLists ==
    SeqUpTo({[success |-> b, fun |-> f] : b \in BOOLEAN, f \in FunVals}, MaxResults)

\* simulated values, InnerParameter lists and options of the category path
SimVals == {Int2V(-2), Int2V(0), Int2V(10)}
Sims == [1..MaxPoints -> SimVals]
\* xs with categories 1..K in order; datapoint p belongs to category of[p]
\* (0: to no category of the group), the datapoints sorted by category
CategoryOf(lowest, K) ==
    {of \in [1..MaxPoints -> lowest..K] : \A p \in 1..(MaxPoints - 1) : of[p] <= of[p + 1]}
XsOf(K, of) == [c \in 1..K |-> [category |-> c, ixs |-> {p \in DOMAIN of : of[p] = c}]]
IntervalOptions ==
    << [intervalConstraints |-> MAX, minGap |-> V(1, 2)],
       [intervalConstraints |-> MAXMIN, minGap |-> V(1, 2)],
       [intervalConstraints |-> "median", minGap |-> V(1, 2)],
       [intervalConstraints |-> MAX],
       [intervalConstraints |-> MAXMIN],
       [intervalConstraints |-> "median"],
       [minGap |-> V(1, 2)] >>

SurrogateOptions ==
    {[method |-> m, reparameterized |-> r, intervalConstraints |-> MAX, minGap |-> MinGapDefault] :
        m \in MethodNames, r \in BOOLEAN}
    \cup {[method |-> REDUCED, reparameterized |-> FALSE, intervalConstraints |-> "median",
           minGap |-> MinGapDefault]}
    \cup {[method |-> REDUCED, reparameterized |-> r, intervalConstraints |-> MAXMIN,
           minGap |-> MinGapDefault] : r \in BOOLEAN}
    \cup {[method |-> STANDARD, reparameterized |-> FALSE, intervalConstraints |-> MAXMIN,
           minGap |-> MinGapDefault]}

\* bound vectors, category orders and interval constraints of the reparameterization
YVals == {Int2V(0), Int2V(1), Int2V(3), V(9, 2)}
GapVals == {Int2V(0), V(1, 2)}
RangeVals == {Int2V(0), Int2V(1)}
\* inputs of the loop over get_bounds_for_category: simulations with the
\* value lo at the first datapoint and hi at the others, datapoint p in
\* category p (the last category takes the rest), and the bound vectors
BoundSims ==
    {[p \in 1..MaxPoints |-> IF p = 1 THEN q[1] ELSE q[2]] :
        q \in {q \in SimVals \X SimVals : VLeq(q[1], q[2])}}
BoundXs(K) == XsOf(K, [p \in 1..MaxPoints |-> IF p <= K THEN p ELSE K])
BoundOptions ==
    {[method |-> m, reparameterized |-> FALSE, intervalConstraints |-> i,
      minGap |-> MinGapDefault] : m \in {REDUCED}, i \in {MAX, MAXMIN}}
    \cup {[method |-> m, reparameterized |-> FALSE, intervalConstraints |-> MAX,
           minGap |-> MinGapDefault] : m \in {STANDARD, "other"}}
BoundVectors(K, options) ==
    IF options["method"] = REDUCED THEN [1..K -> YVals]
    ELSE {[j \in 1..(2 * K) |-> Int2V(j)], [j \in 1..K |-> Int2V(j)]}
NonDecreasing(y) == \A i \in 1..(Len(y) - 1) : VLeq(y[i], y[i + 1])
CategoryOrders(K) == {o \in [1..K -> 1..K] : Distinct(o)}
XsInOrder(o) == [i \in 1..Len(o) |-> [category |-> o[i], ixs |-> {}]]

\* two simulations of two conditions, three time points, two observables,
\* with the index table and the measurements of each group; in the second
\* the first observable is constant and the second group has no datapoints
IntSim(s) == [c \in 1..Len(s) |-> [t \in 1..Len(s[c]) |->
                [g \in 1..Len(s[c][t]) |-> Int2V(s[c][t][g])]]]
IntSeq(q) == [i \in 1..Len(q) |-> Int2V(q[i])]
ProblemData ==
    { [sim |-> IntSim(<< << <<0, 1>>, <<2, 3>>, <<4, 5>> >>,
                         << <<6, 8>>, <<8, 7>>, <<10, 9>> >> >>),
       simulation_indices |-> << << <<1, 2, 3>>, <<1, 2, 3>> >>, << <<1, 2, 3>>, <<2, 3>> >> >>,
       measurements |-> << IntSeq(<<1, 2, 3, 4, 5, 6>>), IntSeq(<<1, 1, 2, 2, 3>>) >>],
      [sim |-> IntSim(<< << <<10, 1>>, <<10, 3>>, <<10, 1>> >>,
                         << <<10, 4>>, <<10, 1>>, <<10, 9>> >> >>),
       simulation_indices |-> << << <<1, 2, 3>>, <<1, 2, 3>> >>, << <<>>, <<>> >> >>,
       measurements |-> << IntSeq(<<2, 2, 3, 3, 5, 5>>), <<>> >>] }
GroupCatalogs == {q \in SeqUpTo(1..MaxGroups, MaxGroups) : Distinct(q)}

\* a string is the sequence of its characters
Str(chars) == chars
\* hard-constraint tables (rows of category and measurement), one per group:
\* no group carries hard constraints, or group 1 does
HardConstraintTables ==
    { [g \in 1..MaxGroups |-> <<>>],
      [g \in 1..MaxGroups |->
          IF g = 1 THEN << [category |-> 1, measurement |-> Str(<<"<", "5">>)],
                           [category |-> 2, measurement |-> Str(<<">", "5">>)] >>
          ELSE <<>>] }

\* parameter maps (condition_map_sim_var, in iteration order) and par_opt_ids
ParStr(id) == [isstr |-> TRUE, id |-> id]
ParNum == [isstr |-> FALSE, id |-> "1.0"]
ParameterMaps ==
    { << [par_sim |-> "k1", par_opt |-> ParStr("k1")],
         [par_sim |-> "k2", par_opt |-> ParStr("k2")] >>,
      << [par_sim |-> "k0", par_opt |-> ParNum],
         [par_sim |-> "k2", par_opt |-> ParStr("k2")] >>,
      << [par_sim |-> "os", par_opt |-> ParStr("optimalScaling_1")],
         [par_sim |-> "k1", par_opt |-> ParStr("k1")] >>,
      << [par_sim |-> "k3", par_opt |-> ParStr("k3")] >>,
      << [par_sim |-> "k1", par_opt |-> ParStr("k1")],
         [par_sim |-> "k4", par_opt |-> ParStr("k1")] >> }
ParOptIds == << "k1", "k2" >>
\* the sensitivities sy of a simulation sim for n_par simulation parameters:
\* the entry at [condition][time][parameter][observable] names its own
\* place, counted from 0 as the code counts
sy_entry(c, t, p, g) == [condition |-> c, time |-> t, parameter |-> p, observable |-> g]
sy_of(sim, n_par) ==
    [c \in 1..Len(sim) |-> [t \in 1..Len(sim[c]) |-> [p \in 1..n_par |->
        [g \in 1..Len(sim[c][t]) |-> sy_entry(c - 1, t - 1, p - 1, g - 1)]]]]
\* list(amici_model.getParameterIds()): the simulation parameters, in the
\* order in which condition_map_sim_var lists them
par_sim_ids_of(parameter_mapping) ==
    [i \in 1..Len(parameter_mapping) |-> parameter_mapping[i].par_sim]
\* a simulation of n_cond conditions, n_time time points and n_obs
\* observables whose entry at [condition][time][observable] names its own
\* place, counted from 0
sim_entry(c, t, g) == [condition |-> c, time |-> t, observable |-> g]
sim_cells(n_cond, n_time, n_obs) ==
    [c \in 1..n_cond |-> [t \in 1..n_time |-> [g \in 1..n_obs |->
        sim_entry(c - 1, t - 1, g - 1)]]]
\* lists of time indices of one condition, and index tables of two
\* conditions in which group gr has the lists first and second and every
\* other group has the time index 1
TimeLists == {<<>>, <<1>>, <<1, 2, 3>>, <<2, 3>>, <<3, 1>>}
IndexTable(gr, first, second) ==
    [g \in 1..MaxGroups |-> IF g = gr THEN <<first, second>> ELSE << <<1>>, <<1>> >>]
\* arguments of DesignProblem: no result, a result without starts, a result
\* of two starts; criteria lists with a modified and with an unknown name
DesignResults ==
    { PyNone,
      [optimize_result |-> [x |-> <<>>]],
      [optimize_result |-> [x |-> << <<Int2V(1)>>, <<Int2V(2)>> >>]] }
InitialXs == {PyNone, Given(<<Int2V(3)>>)}
CriteriaLists ==
    {PyNone, Given(<<"det">>), Given(<<"det_modified", "trace">>), Given(<<"det", "entropy">>)}
ConstsForHess == {PyNone, V(1, 100)}
SaveCounts == {PyNone, Given(5)}
GradVals == {Int2V(1), Int2V(2)}

\* numbers as they are written in a bound string, with their values
NumStrs ==
    { [str |-> Str(<<"3">>), val |-> Int2V(3)],
      [str |-> Str(<<"5">>), val |-> Int2V(5)],
      [str |-> Str(<<"0">>), val |-> Int2V(0)],
      [str |-> Str(<<"3", ".", "1">>), val |-> V(31, 10)],
      [str |-> Str(<<"-", "2">>), val |-> Int2V(-2)],
      [str |-> Str(<<"-", "1">>), val |-> Int2V(-1)] }
\* bound strings of the three forms '>L', '<U', '>L,<U', plain and with blanks
LowerForm(L) == Str(<<">">>) \o L.str
UpperForm(U) == Str(<<"<">>) \o U.str
BothForm(L, U) == LowerForm(L) \o Str(<<",">>) \o UpperForm(U)
Blanked(str) == Str(<<" ">>) \o str \o Str(<<" ">>)
WellFormedStrings ==
    LET plain == {LowerForm(L) : L \in NumStrs} \cup {UpperForm(U) : U \in NumStrs}
                 \cup {BothForm(L, U) : L \in NumStrs, U \in NumStrs}
    IN  plain \cup {Blanked(str) : str \in plain}
\* bound strings of none of the three forms
MalformedStrings ==
    { Str(<<>>), Str(<<"3">>), Str(<<"=", "3">>), Str(<<"x">>),
      Str(<<">">>), Str(<<"<">>), Str(<<">", "=", "3">>), Str(<<">", "x">>),
      Str(<<"3", "<">>), Str(<<"x", ">", "3">>), Str(<<"2", "<", "x", "<", "5">>),
      Str(<<">", "3", "<", "5">>), Str(<<"<", "5", ",", ">", "3">>),
      Str(<<">", "3", ",", "5">>), Str(<<">", "3", ",", "<">>) }
\* one-row tables for category 1 or 2, and the table without rows
HardConstraintRows ==
    {<<>>} \cup
    {<< [category |-> c, measurement |-> m] >> :
        c \in 1..2, m \in WellFormedStrings \cup MalformedStrings}
MaxUpperVals == {Int2V(20)}

\* simulated vectors of a group, as get_sim_all_for_quantitative returns them
SimAlls == UNION {[1..k -> SimVals] : k \in 0..MaxSimAll}

\* simulated vectors for obj_spline: those of SimAlls, and two vectors with
\* values on the knot positions 4 and 8 of their spline domain
KnotSims ==
    { <<Int2V(0), Int2V(4), Int2V(8), Int2V(10), Int2V(10), Int2V(10)>>,
      <<Int2V(4), Int2V(8), Int2V(10), Int2V(10), Int2V(10), Int2V(10)>> }
ObjSplineSims == SimAlls \cup KnotSims
\* inner parameters of a spline with N knots: optimal_xi[j] = j*j
KnotValues(N) == [j \in 1..N |-> Int2V(j * j)]

(***************************************************************************)
(* The state after import: no solver object, no call made.                 *)
(***************************************************************************)
NoFrame == [active |-> FALSE]
NoRet == [fn |-> "none"]

Init ==
    /\ solver = [st |-> "none"]
    /\ pc = "idle"
    /\ problem = PyNone
    /\ gr_idx = 0
    /\ inner_options = PyNone
    /\ calls = <<>>
    /\ optimal_surrogates = <<>>
    /\ exc = "none"
    /\ frame = NoFrame
    /\ csv_rows = <<>>
    /\ ret = NoRet

Fresh == solver.st = "none" /\ pc = "idle" /\ ret = NoRet

(***************************************************************************)
(* Calls of the module-level functions on a fresh process.                 *)
(***************************************************************************)
CallCalculateObjFunction ==
    /\ Fresh
    /\ \E x_inner_opt \in ResultLists :
           ret' = [fn |-> "calculate_obj_function", x_inner_opt |-> x_inner_opt,
                   out |-> calculate_obj_function(x_inner_opt)]
    /\ UNCHANGED <<solver, pc, problem, gr_idx, inner_options, calls, optimal_surrogates,
                   exc, frame, csv_rows>>

CallComputeIntervalConstraints ==
    /\ Fresh
    /\ \E o \in 1..Len(IntervalOptions), K \in 0..MaxCategories, sim \in Sims :
         \E of \in CategoryOf(0, K) :
           ret' = [fn |-> "compute_interval_constraints", xs |-> XsOf(K, of), sim |-> sim,
                   options |-> IntervalOptions[o],
                   out |-> compute_interval_constraints(XsOf(K, of), sim, IntervalOptions[o])]
    /\ UNCHANGED <<solver, pc, problem, gr_idx, inner_options, calls, optimal_surrogates,
                   exc, frame, csv_rows>>

\* y2xi followed by xi2y, as get_inner_options and obj_surrogate_data apply them
CallReparameterize ==
    /\ Fresh
    /\ \E K \in 1..MaxCategories, interval_gap \in GapVals, interval_range \in RangeVals :
         \E o \in CategoryOrders(K), y \in [1..K -> YVals] :
              LET xs == XsInOrder(o)
                  xi == y2xi(y, xs, interval_gap, interval_range)
              IN  ret' = [fn |-> "y2xi_xi2y", xs |-> xs, y |-> y,
                          interval_gap |-> interval_gap, interval_range |-> interval_range,
                          xi |-> xi,
                          y_back |-> xi2y(xi, xs, interval_gap, interval_range)]
    /\ UNCHANGED <<solver, pc, problem, gr_idx, inner_options, calls, optimal_surrogates,
                   exc, frame, csv_rows>>

\* get_spline_domain(sim_all)
CallGetSplineDomain ==
    /\ Fresh
    /\ \E sim_all \in SimAlls :
         ret' = [fn |-> "get_spline_domain", sim_all |-> sim_all,
                 out |-> get_spline_domain(sim_all)]
    /\ UNCHANGED <<solver, pc, problem, gr_idx, inner_options, calls, optimal_surrogates,
                   exc, frame, csv_rows>>

\* spline_get_Jacobian(gr, sim_all, measurements, options), a measurement of
\* 1 for every simulated value
CallSplineGetJacobian ==
    /\ Fresh
    /\ \E sim_all \in SimAlls :
         LET measurements == [k \in 1..Len(sim_all) |-> Int2V(1)]
         IN  ret' = [fn |-> "spline_get_Jacobian", sim_all |-> sim_all,
                     measurements |-> measurements,
                     out |-> spline_get_Jacobian(1, sim_all, measurements,
                                                 get_default_options)]
    /\ UNCHANGED <<solver, pc, problem, gr_idx, inner_options, calls, optimal_surrogates,
                   exc, frame, csv_rows>>

\* obj_spline(gr, optimal_xi, sim_all, w, measurements, options), a
\* measurement of 1 for every simulated value and the N inner parameters
\* optimal_xi of the group
CallObjSpline ==
    /\ Fresh
    /\ \E sim_all \in ObjSplineSims, debugger \in {"quit", "continue"} :
         \E dom \in {get_spline_domain(sim_all)} :
           \E optimal_xi \in {IF Raised(dom) THEN <<>> ELSE KnotValues(dom.val.N)} :
             LET measurements == [k \in 1..Len(sim_all) |-> Int2V(1)]
             IN  ret' = [fn |-> "obj_spline", sim_all |-> sim_all,
                         optimal_xi |-> optimal_xi, measurements |-> measurements,
                         out |-> obj_spline(1, optimal_xi, sim_all, PyNone, measurements,
                                            get_default_options, debugger)]
    /\ UNCHANGED <<solver, pc, problem, gr_idx, inner_options, calls, optimal_surrogates,
                   exc, frame, csv_rows>>

\* the loop `for x in xs: get_bounds_for_category(x, optimal_scaling_bounds,
\* interval_gap, options)` of obj_surrogate_data and get_surrogate_all, after
\* their call of compute_interval_constraints
CallGetBoundsForCategory ==
    /\ Fresh
    /\ \E K \in 1..MaxCategories, sim \in BoundSims, options \in BoundOptions :
         \E y \in BoundVectors(K, options) :
           \E ic \in {compute_interval_constraints(BoundXs(K), sim, options)} :
             ret' = [fn |-> "get_bounds_for_category", xs |-> BoundXs(K), sim |-> sim,
                     options |-> options, optimal_scaling_bounds |-> y,
                     interval_range |-> ic.val.interval_range,
                     interval_gap |-> ic.val.interval_gap,
                     out |-> [i \in 1..K |->
                                get_bounds_for_category(BoundXs(K)[i], y,
                                                        ic.val.interval_gap, options)]]
    /\ UNCHANGED <<solver, pc, problem, gr_idx, inner_options, calls, optimal_surrogates,
                   exc, frame, csv_rows>>

\* spline_get_dxi_dtheta(gr, sim_all, sy_all, measurements, xi, w, w_dot, C,
\* mu, options), a measurement and a sensitivity of 1 for every simulated
\* value and w = 4
CallSplineGetDxiDtheta ==
    /\ Fresh
    /\ \E sim_all \in ObjSplineSims :
         LET ones == [k \in 1..Len(sim_all) |-> Int2V(1)]
         IN  ret' = [fn |-> "spline_get_dxi_dtheta", sim_all |-> sim_all,
                     measurements |-> ones, w |-> Int2V(4),
                     out |-> spline_get_dxi_dtheta(1, sim_all, ones, ones, PyNone, Int2V(4),
                                                   VZero, PyNone, PyNone,
                                                   get_default_options)]
    /\ UNCHANGED <<solver, pc, problem, gr_idx, inner_options, calls, optimal_surrogates,
                   exc, frame, csv_rows>>

\* get_sim_all_for_quantitative(gr, sim, simulation_indices) and
\* get_sy_all_for_quantitative(gr, sy, par_sim_idx, simulation_indices) as
\* the loop body of calculate_gradients calls them, for two conditions, three
\* time points, an observable per group and two simulation parameters
CallQuantitativeVectors ==
    /\ Fresh
    /\ \E gr \in 1..MaxGroups, first \in TimeLists, second \in TimeLists, par_sim_idx \in 0..1 :
         LET sim == sim_cells(2, 3, MaxGroups)
             simulation_indices == IndexTable(gr, first, second)
         IN  ret' = [fn |-> "quantitative_vectors", gr |-> gr,
                     simulation_indices |-> simulation_indices,
                     par_sim_idx |-> par_sim_idx,
                     sim_all |-> get_sim_all_for_quantitative(gr, sim, simulation_indices),
                     sy_all |-> get_sy_all_for_quantitative(gr, sy_of(sim, 2), par_sim_idx,
                                                            simulation_indices)]
    /\ UNCHANGED <<solver, pc, problem, gr_idx, inner_options, calls, optimal_surrogates,
                   exc, frame, csv_rows>>

\* DesignProblem(experiment_list, model, problem, petab_problem, result,
\* initial_x, criteria_list, chosen_criteria, const_for_hess,
\* n_save_combi_result, number_of_measurements)
CallDesignProblem ==
    /\ Fresh
    /\ \E result \in DesignResults, initial_x \in InitialXs, criteria_list \in CriteriaLists,
          const_for_hess \in ConstsForHess, n_save_combi_result \in SaveCounts :
         \E init \in {DesignProblem_init(result, initial_x, criteria_list, const_for_hess,
                                         n_save_combi_result)} :
           ret' = [fn |-> "DesignProblem", result |-> result, initial_x |-> initial_x,
                   criteria_list |-> criteria_list, const_for_hess |-> const_for_hess,
                   n_save_combi_result |-> n_save_combi_result,
                   out |-> init.out, constructed |-> init.noted.constructed,
                   accessed |-> init.noted.accessed]
    /\ UNCHANGED <<solver, pc, problem, gr_idx, inner_options, calls, optimal_surrogates,
                   exc, frame, csv_rows>>

\* get_bounds_from_hard_constraints(x, hard_constraints, max_upper, interval_gap)
CallGetBoundsFromHardConstraints ==
    /\ Fresh
    /\ \E c \in 1..2, table \in HardConstraintRows, max_upper \in MaxUpperVals :
         LET x == [category |-> c, ixs |-> {}]
         IN  ret' = [fn |-> "get_bounds_from_hard_constraints", x |-> x,
                     hard_constraints |-> table, max_upper |-> max_upper,
                     out |-> get_bounds_from_hard_constraints(x, table, max_upper, VZero)]
    /\ UNCHANGED <<solver, pc, problem, gr_idx, inner_options, calls, optimal_surrogates,
                   exc, frame, csv_rows>>

(***************************************************************************)
(* OptimalScalingInnerSolver(options=...).                                 *)
(***************************************************************************)
Construct ==
    /\ Fresh
    /\ \E options \in SolverOptions : solver' = init_solver(options)
    /\ UNCHANGED <<pc, problem, gr_idx, inner_options, calls, optimal_surrogates, exc,
                   frame, csv_rows, ret>>

(***************************************************************************)
(* solve(): one pass over the group catalog.  Every invocation of scipy's  *)
(* minimize is a step of its own: what minimize does (return a result, or  *)
(* raise, for instance out of obj_spline) is not decided by this module.   *)
(***************************************************************************)
groups_for_xs(p) == p.groups

measurements_of(p, gr) ==
    IF gr \in 1..Len(p.measurements) THEN p.measurements[gr] ELSE <<>>

\* list.insert(0, item)
list_append_front(list, item) == <<item>> \o list

\* optimal_surrogates.append(surrogate_opt_results)
list_append(list, item) == Append(list, item)

SolveBegin ==
    /\ pc = "idle"
    /\ solver.st = "ok"
    /\ \E data \in ProblemData, catalog \in GroupCatalogs, hc \in HardConstraintTables :
           problem' = [groups |-> catalog, sim |-> data.sim,
                       simulation_indices |-> data.simulation_indices,
                       measurements |-> data.measurements,
                       hard_constraints |-> hc]
    /\ optimal_surrogates' = <<>>
    /\ gr_idx' = 1
    /\ pc' = "solve"
    /\ UNCHANGED <<solver, inner_options, calls, exc, frame, csv_rows, ret>>

\* spline_optimize_surrogate up to the first minimize
spline_prepare(gr, p, options) ==
    LET sim_all == get_sim_all_for_quantitative(gr, p.sim, p.simulation_indices)
    IN  IF Raised(sim_all) THEN sim_all
        ELSE get_spline_inner_options(gr, measurements_of(p, gr), options, sim_all.val)

SolveGroup ==
    /\ pc = "solve"
    /\ gr_idx <= Len(groups_for_xs(problem))
    /\ LET prep == spline_prepare(groups_for_xs(problem)[gr_idx], problem, solver.options)
       IN  \/ /\ ~Raised(prep)
              /\ inner_options' = prep.val
              /\ pc' = "minimize"
              /\ exc' = exc
           \/ /\ Raised(prep)
              /\ exc' = prep.exc
              /\ pc' = "raised"
              /\ inner_options' = inner_options
    /\ UNCHANGED <<solver, problem, gr_idx, calls, optimal_surrogates, frame, csv_rows, ret>>

\* one invocation of minimize: the group, the keyword arguments, and whether
\* it raised or else the success flag of the result
Invocation(raised, success) ==
    [gr |-> groups_for_xs(problem)[gr_idx], kwargs |-> inner_options, raised |-> raised,
     success |-> success]

\* minimize returns an OptimizeResult; `gr` notes the group it was fitted for
MinimizeReturns ==
    /\ pc \in {"minimize", "retry"}
    /\ \E success \in BOOLEAN :
         /\ calls' = Append(calls, Invocation(FALSE, success))
         /\ optimal_surrogates' =
               list_append(optimal_surrogates,
                      [success |-> success, fun |-> V(1, 2), x |-> inner_options.x0,
                       gr |-> groups_for_xs(problem)[gr_idx]])
    /\ gr_idx' = gr_idx + 1
    /\ pc' = "solve"
    /\ UNCHANGED <<solver, problem, inner_options, exc, frame, csv_rows, ret>>

\* the first minimize raises: the bare except replaces x0 and calls again
MinimizeRaises ==
    /\ pc = "minimize"
    /\ calls' = Append(calls, Invocation(TRUE, FALSE))
    /\ inner_options' = [inner_options EXCEPT !.x0 = retry_x0(@)]
    /\ pc' = "retry"
    /\ UNCHANGED <<solver, problem, gr_idx, optimal_surrogates, exc, frame, csv_rows, ret>>

\* the second minimize raises outside any try
RetryRaises ==
    /\ pc = "retry"
    /\ calls' = Append(calls, Invocation(TRUE, FALSE))
    /\ exc' = "MinimizeError"
    /\ pc' = "raised"
    /\ UNCHANGED <<solver, problem, gr_idx, inner_options, optimal_surrogates, frame,
                   csv_rows, ret>>

SolveReturn ==
    /\ pc = "solve"
    /\ gr_idx > Len(groups_for_xs(problem))
    /\ pc' = "solved"
    /\ UNCHANGED <<solver, problem, gr_idx, inner_options, calls, optimal_surrogates, exc,
                   frame, csv_rows, ret>>

(***************************************************************************)
(* optimize_surrogate_data(xs, sim, options), called on a fresh process:   *)
(* the same try / except around minimize as spline_optimize_surrogate.     *)
(***************************************************************************)
OsdCall(xs, sim, options, out) ==
    [fn |-> "optimize_surrogate_data", xs |-> xs, sim |-> sim, options |-> options,
     out |-> out]

OsdBegin ==
    /\ Fresh
    /\ \E K \in 1..MaxCategories, sim \in Sims, options \in SurrogateOptions :
         \E of \in CategoryOf(1, K) :
           LET prep == osd_prepare(XsOf(K, of), sim, options)
           IN  \/ /\ Raised(prep)
                  /\ ret' = OsdCall(XsOf(K, of), sim, options, prep)
                  /\ exc' = prep.exc
                  /\ pc' = "raised"
                  /\ UNCHANGED inner_options
               \/ /\ ~Raised(prep)
                  /\ ret' = OsdCall(XsOf(K, of), sim, options, Raise("pending"))
                  /\ inner_options' = prep.val
                  /\ pc' = "osd_minimize"
                  /\ UNCHANGED exc
    /\ UNCHANGED <<solver, problem, gr_idx, calls, optimal_surrogates, frame, csv_rows>>

OsdInvocation(raised, success) ==
    [gr |-> 0, kwargs |-> inner_options, raised |-> raised, success |-> success]

OsdMinimizeReturns ==
    /\ pc \in {"osd_minimize", "osd_retry"}
    /\ \E success \in BOOLEAN :
        /\ calls' = Append(calls, OsdInvocation(FALSE, success))
        /\ ret' = [ret EXCEPT !.out =
                      Return([success |-> success, fun |-> V(1, 2), x |-> inner_options.x0])]
    /\ pc' = "osd_done"
    /\ UNCHANGED <<solver, problem, gr_idx, inner_options, optimal_surrogates, exc, frame,
                   csv_rows>>

OsdMinimizeRaises ==
    /\ pc = "osd_minimize"
    /\ calls' = Append(calls, OsdInvocation(TRUE, FALSE))
    /\ inner_options' = [inner_options EXCEPT !.x0 = retry_x0(@)]
    /\ pc' = "osd_retry"
    /\ UNCHANGED <<solver, problem, gr_idx, optimal_surrogates, exc, frame, csv_rows, ret>>

OsdRetryRaises ==
    /\ pc = "osd_retry"
    /\ calls' = Append(calls, OsdInvocation(TRUE, FALSE))
    /\ ret' = [ret EXCEPT !.out = Raise("MinimizeError")]
    /\ exc' = "MinimizeError"
    /\ pc' = "raised"
    /\ UNCHANGED <<solver, problem, gr_idx, inner_options, optimal_surrogates, frame,
                   csv_rows>>

(***************************************************************************)
(* calculate_gradients(problem, x_inner_opt, sim, sy, parameter_mapping,   *)
(* par_opt_ids, amici_model, snllh), called with the list solve returned.  *)
(* One step per entry of the parameter map and one per group within it.    *)
(* The group's term df_dxi.dot(xi_dot) + df_dyk comes out of lstsq and     *)
(* spsolve and is taken from GradVals.                                     *)
(***************************************************************************)
IndexOf(q, v) == CHOOSE i \in 1..Len(q) : q[i] = v /\ \A j \in 1..(i - 1) : q[j] # v

\* isinstance(par_opt, str) and not par_opt.startswith('optimalScaling_')
StartsWith(str, prefix) ==
    \E rest \in {"", "1", "2"} : str = prefix \o rest
IsOuterParameter(par_opt) ==
    par_opt.isstr /\ ~StartsWith(par_opt.id, "optimalScaling_")

GradBegin ==
    /\ pc = "solved"
    /\ \E parameter_mapping \in ParameterMaps :
           frame' = [active |-> TRUE,
                     x_inner_opt |-> optimal_surrogates,
                     parameter_mapping |-> parameter_mapping,
                     par_opt_ids |-> ParOptIds,
                     par_sim_ids |-> par_sim_ids_of(parameter_mapping),
                     snllh |-> [i \in 1..Len(ParOptIds) |-> Int2V(7)],
                     snllh_in |-> [i \in 1..Len(ParOptIds) |-> Int2V(7)],
                     pos |-> 1, par_sim_idx |-> -1, inner_par_idx |-> 0,
                     par_opt_idx |-> 0, idx |-> 1, grad |-> VZero, pairs |-> <<>>,
                     terms |-> <<>>, slices |-> <<>>]
    /\ pc' = "grad_par"
    /\ UNCHANGED <<solver, problem, gr_idx, inner_options, calls, optimal_surrogates, exc,
                   csv_rows, ret>>

\* writer.writerow(...) on the file opened with open(..., 'a')
file_append(rows, row) == Append(rows, row)

\* the head of the loop over condition_map_sim_var.items()
GradParameter ==
    /\ pc = "grad_par"
    /\ frame.pos <= Len(frame.parameter_mapping)
    /\ LET par_opt == frame.parameter_mapping[frame.pos].par_opt
       IN  \/ /\ ~IsOuterParameter(par_opt)
              /\ frame' = [frame EXCEPT !.pos = @ + 1]
              /\ UNCHANGED <<pc, exc>>
           \/ /\ IsOuterParameter(par_opt)
              /\ \E i \in 1..Len(frame.par_opt_ids) : frame.par_opt_ids[i] = par_opt.id
              /\ frame' = [frame EXCEPT !.par_sim_idx = @ + 1,
                                        !.inner_par_idx = 0,
                                        !.par_opt_idx = IndexOf(frame.par_opt_ids, par_opt.id),
                                        !.grad = VZero,
                                        !.idx = 1]
              /\ pc' = "grad_group"
              /\ exc' = exc
           \/ /\ IsOuterParameter(par_opt)
              /\ \A i \in 1..Len(frame.par_opt_ids) : frame.par_opt_ids[i] # par_opt.id
              /\ frame' = [frame EXCEPT !.par_sim_idx = @ + 1, !.inner_par_idx = 0]
              /\ exc' = "ValueError"
              /\ pc' = "raised"
    /\ UNCHANGED <<solver, problem, gr_idx, inner_options, calls, optimal_surrogates,
                   csv_rows, ret>>

\* the body of the loop over the groups, for group number frame.idx: the
\* row appended to the csv file, then the Jacobian (here: whether the loop
\* of spline_get_Jacobian ends with an error), the multipliers, the
\* sensitivities and the gradient term of the group.  The term is a number
\* the model does not compute; `pairs`, `slices` and `terms` note what was read and
\* added in which pass (`slices`: the parameter axis positions of sy that
\* get_sy_all_for_quantitative read)
GradGroup ==
    /\ pc = "grad_group"
    /\ frame.idx <= Len(groups_for_xs(problem))
    /\ \E gr \in {groups_for_xs(problem)[frame.idx]} :
       \E sim_all \in {get_sim_all_for_quantitative(gr, problem.sim,
                                                   problem.simulation_indices).val} :
       \E sy_all \in {get_sy_all_for_quantitative(
                           gr, sy_of(problem.sim, Len(frame.par_sim_ids)),
                           frame.par_sim_idx, problem.simulation_indices).val} :
       \E dom \in {get_spline_domain(sim_all).val},
          Jacobian \in {spline_get_Jacobian_loop(gr, sim_all, measurements_of(problem, gr),
                                                 solver.options)} :
         LET res == frame.x_inner_opt[frame.inner_par_idx + 1]
             row == [N |-> dom.N, delta_c |-> dom.delta_c, c_1 |-> dom.c_1, xi |-> res.x,
                     sim_all |-> sim_all]
             paired == [frame EXCEPT
                          !.inner_par_idx = @ + 1,
                          !.slices = Append(@, [pos |-> frame.pos,
                                                par_sim_idx |-> frame.par_sim_idx,
                                                gr |-> gr,
                                                parameters |-> {sy_all[k].parameter :
                                                                   k \in 1..Len(sy_all)}]),
                          !.pairs = Append(@, [par_opt_idx |-> frame.par_opt_idx,
                                               result |-> frame.inner_par_idx + 1,
                                               result_gr |-> res.gr, gr |-> gr])]
         IN  \/ \* open(..., 'a') fails: the directory does not exist
                /\ frame' = paired
                /\ exc' = "FileNotFoundError"
                /\ pc' = "raised"
                /\ UNCHANGED csv_rows
             \/ /\ Raised(Jacobian)
                /\ csv_rows' = file_append(csv_rows, row)
                /\ frame' = paired
                /\ exc' = Jacobian.exc
                /\ pc' = "raised"
             \/ /\ ~Raised(Jacobian)
                /\ csv_rows' = file_append(csv_rows, row)
                /\ \E term \in GradVals :
                       frame' = [paired EXCEPT
                                   !.grad = VAdd(@, term),
                                   !.terms = Append(@, [par_opt_idx |-> frame.par_opt_idx,
                                                        pass |-> frame.par_sim_idx,
                                                        term |-> term]),
                                   !.idx = @ + 1]
                /\ UNCHANGED <<pc, exc>>
    /\ UNCHANGED <<solver, problem, gr_idx, inner_options, calls, optimal_surrogates, ret>>

\* snllh[par_opt_idx] += grad
store_gradient_add(snllh, par_opt_idx, grad) ==
    [snllh EXCEPT ![par_opt_idx] = VAdd(@, grad)]

\* snllh[par_opt_idx] = grad
store_gradient(snllh, par_opt_idx, grad) == [snllh EXCEPT ![par_opt_idx] = grad]

\* after the last group: snllh[par_opt_idx] = grad
GradStore ==
    /\ pc = "grad_group"
    /\ frame.idx > Len(groups_for_xs(problem))
    /\ frame' = [frame EXCEPT !.snllh = store_gradient(@, frame.par_opt_idx, frame.grad),
                              !.pos = @ + 1]
    /\ pc' = "grad_par"
    /\ UNCHANGED <<solver, problem, gr_idx, inner_options, calls, optimal_surrogates, exc,
                   csv_rows, ret>>

GradReturn ==
    /\ pc = "grad_par"
    /\ frame.pos > Len(frame.parameter_mapping)
    /\ pc' = "grad_done"
    /\ UNCHANGED <<solver, problem, gr_idx, inner_options, calls, optimal_surrogates, exc,
                   frame, csv_rows, ret>>

Next ==
    \/ CallCalculateObjFunction
    \/ CallComputeIntervalConstraints
    \/ CallReparameterize
    \/ CallGetBoundsFromHardConstraints
    \/ CallGetSplineDomain
    \/ CallSplineGetJacobian
    \/ CallObjSpline
    \/ CallDesignProblem
    \/ CallQuantitativeVectors
    \/ CallSplineGetDxiDtheta
    \/ CallGetBoundsForCategory
    \/ Construct
    \/ SolveBegin
    \/ SolveGroup
    \/ MinimizeReturns
    \/ MinimizeRaises
    \/ RetryRaises
    \/ SolveReturn
    \/ OsdBegin
    \/ OsdMinimizeReturns
    \/ OsdMinimizeRaises
    \/ OsdRetryRaises
    \/ GradBegin
    \/ GradParameter
    \/ GradGroup
    \/ GradStore
    \/ GradReturn

Spec == Init /\ [][Next]_vars

(***************************************************************************)
(* Properties.                                                             *)
(***************************************************************************)
IsCall(fn) == ret.fn = fn

\* C1: the constructor raises exactly when method is 'standard' and
\* reparameterized is true; every other combination of method in {reduced,
\* standard} and reparameterized, and options=None (defaults reduced/true),
\* constructs.
C1_ConstructorRejectsOnlyStandardReparameterized ==
    solver.st # "none" =>
        LET none == solver.arg = PyNone
            method == IF none THEN REDUCED ELSE solver.arg["method"]
            reparameterized == IF none THEN TRUE ELSE solver.arg["reparameterized"]
        IN  method \in {REDUCED, STANDARD} =>
                /\ solver.st \in {"ok", "NotImplementedError"}
                /\ solver.st = "NotImplementedError" <=> (method = STANDARD /\ reparameterized)
                /\ none => /\ solver.st = "ok"
                           /\ solver.options["method"] = REDUCED
                           /\ solver.options["reparameterized"] = TRUE

C1_Witness ==
    /\ solver.st = "NotImplementedError"
    /\ solver.arg # PyNone
    /\ solver.arg["method"] = STANDARD
    /\ solver.arg["reparameterized"]

\* C2: calculate_obj_function returns NaN with a warning when some result
\* has success = false, and otherwise the sum of the 'fun' values (0 for the
\* empty list); it never raises.
RECURSIVE SumOfFuns(_)
SumOfFuns(results) ==
    IF results = <<>> THEN Int2V(0) ELSE VAdd(Head(results).fun, SumOfFuns(Tail(results)))

C2_ObjectiveIsSumOrNaN ==
    IsCall("calculate_obj_function") =>
        LET results == ret.x_inner_opt
            failed == \E i \in 1..Len(results) : results[i].success = FALSE
        IN  /\ failed => (IsNaN(ret.out.obj) /\ ret.out.warned)
            /\ ~failed => (ret.out.obj = SumOfFuns(results) /\ ~ret.out.warned)
            /\ results = <<>> => ret.out.obj = Int2V(0)

C2_Witness ==
    /\ IsCall("calculate_obj_function")
    /\ Len(ret.x_inner_opt) = 3
    /\ ret.x_inner_opt[1].success
    /\ ~ret.x_inner_opt[2].success
    /\ IsNaN(ret.out.obj)

\* C3: solve() returns one result per group of the catalog, the i-th result
\* fitted for the i-th group, and calculate_gradients reads result i for
\* group i of the same catalog order.
C3_ResultsFollowCatalogOrder ==
    /\ pc = "solved" =>
           /\ Len(optimal_surrogates) = Len(problem.groups)
           /\ \A i \in 1..Len(problem.groups) : optimal_surrogates[i].gr = problem.groups[i]
    /\ frame.active =>
           \A k \in 1..Len(frame.pairs) :
               /\ frame.pairs[k].result \in 1..Len(problem.groups)
               /\ problem.groups[frame.pairs[k].result] = frame.pairs[k].gr
               /\ frame.pairs[k].result_gr = frame.pairs[k].gr

C3_Witness ==
    /\ pc = "grad_done"
    /\ problem.groups = <<2, 1>>
    /\ Len(optimal_surrogates) = 2
    /\ Len(frame.pairs) = 4

\* C4: for any order in which the group lists its categories 1..K and every
\* non-decreasing y, xi2y(y2xi(y)) equals y.
C4_RoundTripInAnyCategoryOrder ==
    (IsCall("y2xi_xi2y") /\ NonDecreasing(ret.y)) => ret.y_back = ret.y

\* the same for groups that list their categories in increasing order
Ascending(xs) == \A i \in 1..Len(xs) : xs[i].category = i
C4_RoundTripInAscendingOrder ==
    (IsCall("y2xi_xi2y") /\ NonDecreasing(ret.y) /\ Ascending(ret.xs)) => ret.y_back = ret.y

\* The simulated values of the group, and their extremes, read off the masks.
GroupPoints(xs) == UNION {xs[i].ixs : i \in 1..Len(xs)}
MaxSim(xs, sim) ==
    CHOOSE m \in {sim[p] : p \in GroupPoints(xs)} :
        \A p \in GroupPoints(xs) : ~VLess(m, sim[p])
MinSim(xs, sim) ==
    CHOOSE m \in {sim[p] : p \in GroupPoints(xs)} :
        \A p \in GroupPoints(xs) : ~VLess(sim[p], m)
IntervalCall == IsCall("compute_interval_constraints")
IntervalReturned == IntervalCall /\ ~Raised(ret.out)
Mode == ret.options["intervalConstraints"]
\* eps as the options give it: 1e-16 when minGap is absent
EpsGiven ==
    IF "minGap" \in DOMAIN ret.options THEN ret.options["minGap"] ELSE Num(<<0, 1>>, <<1, 1>>)
Times(a, n) == VScale(a, <<n, 1>>)

\* C5: with K categories, interval_range = max_sim/(2K+1) and the gap before
\* the minGap adjustment is max_sim/(4(K-1)+1) in mode 'max'; mode 'max-min'
\* uses max_sim - min_sim in place of max_sim.
C5_IntervalFormulas ==
    IntervalReturned =>
        LET K == Len(ret.xs)
            width == IF Mode = MAX THEN MaxSim(ret.xs, ret.sim)
                     ELSE VSub(MaxSim(ret.xs, ret.sim), MinSim(ret.xs, ret.sim))
        IN  /\ Mode \in {MAX, MAXMIN}
            /\ Times(ret.out.val.interval_range, 2 * K + 1) = width
            /\ Times(VSub(ret.out.val.interval_gap, EpsGiven), 4 * (K - 1) + 1) = width

C5_Witness ==
    /\ IntervalReturned
    /\ Mode = MAXMIN
    /\ Len(ret.xs) = 2
    /\ MinSim(ret.xs, ret.sim) = Int2V(-2)
    /\ MaxSim(ret.xs, ret.sim) = Int2V(10)
    /\ ret.out.val.interval_range = V(12, 5)

\* the gap the formula gives, before minGap enters
FormulaGap ==
    LET K == Len(ret.xs)
        width == IF Mode = MAX THEN MaxSim(ret.xs, ret.sim)
                 ELSE VSub(MaxSim(ret.xs, ret.sim), MinSim(ret.xs, ret.sim))
    IN  VScale(width, RNorm(1, 4 * K - 3))

\* C6 as stated: the returned interval_gap is the larger of the formula gap
\* and minGap, so a formula gap above minGap is returned unchanged.
C6_GapIsFlooredByMinGap ==
    IntervalReturned =>
        ret.out.val.interval_gap =
            (IF VLess(FormulaGap, EpsGiven) THEN EpsGiven ELSE FormulaGap)

\* C6 amended: the returned interval_gap is the formula gap plus minGap,
\* with minGap = 1e-16 when the option is absent.
C6_GapIsFormulaPlusMinGap ==
    IntervalReturned =>
        /\ VSub(ret.out.val.interval_gap, FormulaGap) = EpsGiven
        /\ "minGap" \notin DOMAIN ret.options =>
               ret.out.val.interval_gap = Num(FormulaGap.r, <<1, 1>>)

C6_Witness ==
    /\ IntervalReturned
    /\ "minGap" \notin DOMAIN ret.options
    /\ VLess(Int2V(0), FormulaGap)
    /\ ret.out.val.interval_gap = Num(FormulaGap.r, <<1, 1>>)

C7Case ==
    /\ IntervalReturned
    /\ Mode = MAX
    /\ Len(ret.xs) = 3
    /\ MaxSim(ret.xs, ret.sim) = Int2V(10)

\* C7 as stated: mode 'max', max_sim = 10, K = 3 give interval_range = 10/7
\* and interval_gap = 10/5 + minGap.
C7_ExampleGapIsTwoPlusMinGap ==
    C7Case =>
        /\ ret.out.val.interval_range = V(10, 7)
        /\ ret.out.val.interval_gap = VAdd(V(10, 5), EpsGiven)

\* C7 amended: mode 'max', max_sim = 10, K = 3 give interval_range = 10/7
\* and interval_gap = 10/9 + minGap.
C7_ExampleGapIsTenNinthsPlusMinGap ==
    C7Case =>
        /\ ret.out.val.interval_range = V(10, 7)
        /\ ret.out.val.interval_gap = VAdd(V(10, 9), EpsGiven)

C7_Witness ==
    /\ C7Case
    /\ "minGap" \in DOMAIN ret.options
    /\ ret.out.val.interval_gap = V(29, 18)

\* C8: for every intervalConstraints value other than 'max' and 'max-min'
\* compute_interval_constraints ends in an error and returns no pair.
C8_UnknownModeFails ==
    (/\ IntervalCall
     /\ "intervalConstraints" \in DOMAIN ret.options
     /\ Mode \notin {MAX, MAXMIN}) =>
        /\ Raised(ret.out)
        /\ "val" \notin DOMAIN ret.out

C8_Witness ==
    /\ IntervalCall
    /\ "intervalConstraints" \in DOMAIN ret.options
    /\ Mode = "median"
    /\ GroupPoints(ret.xs) # {}
    /\ ret.out = Raise("ValueError")

\* C9: with a method name that is neither 'reduced' nor 'standard', the
\* constructor or solve() fails: solve() never returns fitted results.
C9_UnknownMethodNeverSolves ==
    ~ /\ solver.st = "ok"
      /\ solver.options["method"] \notin {REDUCED, STANDARD}
      /\ pc = "solved"
      /\ optimal_surrogates # <<>>

\* C10: per group (per call of optimize_surrogate_data) minimize is invoked
\* at most twice; a second invocation follows only a first one that raised,
\* with an all-zero x0 of the same length and every other keyword argument
\* unchanged; a first invocation that returns, also with success = false, is
\* not retried; an exception of the second invocation leaves the caller.
LaterCalls(i) == {j \in (i + 1)..Len(calls) : calls[j].gr = calls[i].gr}
EarlierCalls(i) == {j \in 1..(i - 1) : calls[j].gr = calls[i].gr}
AllZero(x0, n) == Len(x0) = n /\ \A k \in 1..n : x0[k] = Int2V(0)

C10_AtMostOneRetryWithZeroGuess ==
    \A i \in 1..Len(calls) :
        /\ Cardinality(LaterCalls(i)) <= 1
        /\ \A j \in LaterCalls(i) :
               /\ j = i + 1
               /\ calls[i].raised
               /\ AllZero(calls[j].kwargs.x0, Len(calls[i].kwargs.x0))
               /\ [calls[j].kwargs EXCEPT !.x0 = calls[i].kwargs.x0] = calls[i].kwargs
        /\ (~calls[i].raised) => LaterCalls(i) = {}
        /\ (calls[i].raised /\ EarlierCalls(i) = {} /\ LaterCalls(i) = {}) =>
               (i = Len(calls) /\ pc \in {"retry", "osd_retry"})
        /\ (calls[i].raised /\ EarlierCalls(i) # {}) =>
               (i = Len(calls) /\ pc = "raised" /\ exc = "MinimizeError")

C10_Witness ==
    /\ pc = "raised"
    /\ Len(calls) = 3
    /\ ~calls[1].raised /\ ~calls[1].success
    /\ calls[2].gr # calls[1].gr
    /\ calls[2].raised /\ calls[3].raised
    /\ calls[3].gr = calls[2].gr
    /\ calls[2].kwargs.x0 # calls[3].kwargs.x0

(***************************************************************************)
(* Hard constraints and solve().                                           *)
(***************************************************************************)
CarriesHardConstraints(p, gr) == p.hard_constraints[gr] # <<>>

\* C11: solve() invokes minimize for no group that carries hard constraints
C11_NoInvocationForHardConstrainedGroup ==
    problem # PyNone =>
        \A i \in 1..Len(calls) : ~CarriesHardConstraints(problem, calls[i].gr)

(***************************************************************************)
(* get_bounds_from_hard_constraints.                                       *)
(***************************************************************************)
BoundsCall == IsCall("get_bounds_from_hard_constraints")
\* the rows of the table for the category of x
RowsForCategory ==
    SelectSeq(ret.hard_constraints, LAMBDA row : row.category = ret.x.category)
\* the call is for a category that has a row with this bound string, plain
\* or with blanks
BoundString(str) ==
    /\ BoundsCall
    /\ RowsForCategory # <<>>
    /\ RowsForCategory[1].measurement \in {str, Blanked(str)}

\* C12: get_bounds_from_hard_constraints raises whenever the table has no
\* row for the category or the row's bound string has none of the forms
\* '>L', '<U', '>L,<U', for every category
C12_MalformedOrMissingFails ==
    BoundsCall /\ (RowsForCategory = <<>> \/ RowsForCategory[1].measurement \in MalformedStrings)
        => Raised(ret.out)

\* what the code does for a string with neither '<' nor '>': for category 1
\* it returns the defaults, for any other category x_lower is unbound
NoOperatorGivesDefaultsForCategoryOne ==
    \A str \in MalformedStrings :
        BoundString(str) /\ ~str_contains(str, "<") /\ ~str_contains(str, ">") =>
            IF ret.x.category = 1
            THEN ret.out = Return([x_upper |-> ret.max_upper, x_lower |-> VZero])
            ELSE ret.out = Raise("UnboundLocalError")

\* the bounds a string of one of the three forms stands for
LowerOf(L) == VAdd(L.val, LowerOffset)
MapsLower(L) ==
    BoundString(LowerForm(L)) =>
        ret.out = Return([x_upper |-> ret.max_upper, x_lower |-> LowerOf(L)])
MapsUpper(U) ==
    BoundString(UpperForm(U)) =>
        IF ret.x.category = 1
        THEN ret.out = Return([x_upper |-> U.val, x_lower |-> VZero])
        ELSE Raised(ret.out) \/ ret.out.val.x_upper = U.val
MapsBoth(L, U) ==
    BoundString(BothForm(L, U)) =>
        ret.out = Return([x_upper |-> U.val, x_lower |-> LowerOf(L)])

\* C13: for every L and U, -1 included, '>L' gives the lower bound L + 1e-6
\* and the default upper bound max_upper, '<U' gives the upper bound U (and
\* the default lower bound 0 for category 1), '>L,<U' gives both
C13_EveryNumberIsMapped ==
    \A L \in NumStrs, U \in NumStrs : MapsLower(L) /\ MapsUpper(U) /\ MapsBoth(L, U)

\* the same for every L and U other than -1
EveryNumberButMinusOneIsMapped ==
    \A L \in NumStrs, U \in NumStrs :
        /\ L.val # NoConstraint => MapsLower(L)
        /\ U.val # NoConstraint => MapsUpper(U)
        /\ L.val # NoConstraint /\ U.val # NoConstraint => MapsBoth(L, U)

(***************************************************************************)
(* The spline domain.                                                      *)
(***************************************************************************)
DomainCall == IsCall("get_spline_domain") /\ ret.sim_all # <<>>
Domain == ret.out.val
SimMin == VMin(ret.sim_all)
SimMax == VMax(ret.sim_all)
LastKnot == VAdd(Domain.c_1, VScale(Domain.delta_c, <<Domain.N - 1, 1>>))
HalfStepBelowMin == VSub(SimMin, VScale(Domain.delta_c, <<1, 2>>))
\* the condition of the `if` of get_spline_domain
BelowZeroBranch ==
    spline_domain_below_zero(SimMin, VSub(SimMax, SimMin), Len(ret.sim_all))

\* C14: for every non-empty simulated vector get_spline_domain returns
\* N >= 1 and delta_c > 0
C14_KnotCountAndSpacingPositive ==
    DomainCall => /\ ~Raised(ret.out)
                  /\ Domain.N >= 1
                  /\ VLess(VZero, Domain.delta_c)

C16_SegmentIndexInRange ==
    IsCall("spline_get_Jacobian") /\ ~Raised(ret.out) =>
        \A k \in 1..Len(ret.out.val.n) :
            /\ ret.out.val.n[k] \in 1..(ret.out.val.N + 1)
            /\ \A i \in ret.out.val.positions[k] : i \in 0..(ret.out.val.N - 1)

(***************************************************************************)
(* calculate_gradients: what it writes.                                    *)
(***************************************************************************)
\* C17: solve() followed by calculate_gradients() writes no file
C17_NothingPersisted == csv_rows = <<>>

\* the passes of the parameter loop that added terms for entry i of the
\* gradient vector, and the terms of one pass
PassesFor(i) ==
    {frame.terms[k].pass : k \in {j \in 1..Len(frame.terms) : frame.terms[j].par_opt_idx = i}}
TermsOf(pass) ==
    LET picked == SelectSeq(frame.terms, LAMBDA t : t.pass = pass)
    IN  [k \in 1..Len(picked) |-> picked[k].term]
LastPass(i) == CHOOSE pass \in PassesFor(i) : \A other \in PassesFor(i) : other <= pass
\* the entries of the gradient vector that belong to outer parameters of the map
OuterEntries ==
    {IndexOf(frame.par_opt_ids, frame.parameter_mapping[k].par_opt.id) :
        k \in {j \in 1..Len(frame.parameter_mapping) :
                   IsOuterParameter(frame.parameter_mapping[j].par_opt)}}

\* C18: after calculate_gradients returns, the entry of every outer
\* parameter of the map is the sum over all groups of the terms of that
\* parameter's (last) pass, whatever it was before, and every other entry
\* is the one passed in
C18_GradientEntries ==
    pc = "grad_done" =>
        \A i \in 1..Len(frame.par_opt_ids) :
            IF i \in OuterEntries
            THEN IF problem.groups = <<>> THEN frame.snllh[i] = VZero
                 ELSE /\ PassesFor(i) # {}
                      /\ Len(TermsOf(LastPass(i))) = Len(problem.groups)
                      /\ frame.snllh[i] = VSum(TermsOf(LastPass(i)))
            ELSE frame.snllh[i] = frame.snllh_in[i]

\* two groups and a map with one outer parameter: its entry is overwritten
\* by the sum of two terms, the other entry is untouched
C18_Witness ==
    /\ pc = "grad_done"
    /\ Len(problem.groups) = 2
    /\ OuterEntries = {1}
    /\ Len(frame.terms) = 2
    /\ frame.snllh[1] = VAdd(frame.terms[1].term, frame.terms[2].term)
    /\ frame.snllh[1] # frame.snllh_in[1]
    /\ frame.snllh[2] = frame.snllh_in[2]

(***************************************************************************)
(* Monotonicity of what the constraints admit.                             *)
(***************************************************************************)
\* vectors the solver may try
CandVals == {V(-1, 2), Int2V(0), Int2V(1)}
Candidates(n) == [1..n -> CandVals]
\* a.dot(x) - b >= 0, the 'ineq' constraint as scipy reads it
Dot(row, x) == VSum([j \in 1..Len(x) |-> VScale(x[j], <<row[j], 1>>)])
Satisfies(cons, x) ==
    \A i \in 1..Len(cons.a) : VLeq(cons.b[i], Dot(cons.a[i], x))
\* lb <= x <= ub, the Bounds as scipy reads them
Within(bounds, x) ==
    \A j \in 1..Len(x) : VLeq(bounds.lb[j], x[j]) /\ VLeq(x[j], bounds.ub[j])
SplineFit == pc = "minimize"
CategoryFit == pc = "osd_minimize" /\ inner_options.method = "SLSQP"
ReparameterizedFit ==
    pc = "osd_minimize" /\ inner_options.method = "L-BFGS-B" /\ ret.options["method"] = REDUCED
FitIntervals == compute_interval_constraints(ret.xs, ret.sim, ret.options).val
AdmitsOnlyNonDecreasing ==
    /\ SplineFit \/ CategoryFit =>
          \A x \in Candidates(Len(inner_options.x0)) :
              Satisfies(inner_options.constraints, x) => NonDecreasing(x)
    /\ ReparameterizedFit =>
          \A xi \in Candidates(Len(inner_options.x0)) :
              Within(inner_options.bounds, xi) =>
                  NonDecreasing(xi2y(xi, ret.xs, FitIntervals.interval_gap,
                                     FitIntervals.interval_range))

\* C19: in every variant (spline knots, reduced bounds, standard pairs,
\* reparameterized increments mapped back through xi2y) every vector that
\* satisfies the constraints handed to minimize is non-decreasing
C19_ConstraintsAdmitOnlyNonDecreasing == AdmitsOnlyNonDecreasing

\* the same for the spline and for groups whose interval width (max_sim, or
\* max_sim - min_sim) is not negative
NonNegativeWidth ==
    SplineFit \/ VLeq(VZero, VScale(FitIntervals.interval_range, <<2 * Len(ret.xs) + 1, 1>>))
AdmitsOnlyNonDecreasingForNonNegativeWidth ==
    (SplineFit \/ CategoryFit \/ ReparameterizedFit) /\ NonNegativeWidth
        => AdmitsOnlyNonDecreasing

(***************************************************************************)
(* The reparameterization and the reduced constraints.                     *)
(***************************************************************************)
ReducedConstraintsHold ==
    Satisfies(reduced_constraints(Len(ret.y), ret.interval_range, ret.interval_gap), ret.y)
IncrementsNonNegative == \A k \in 1..Len(ret.xi) : VLeq(VZero, ret.xi[k])

\* C20: a bound vector y satisfies the reduced inequality constraints of
\* get_constraints_for_optimization if and only if every component of
\* y2xi(y) is >= 0
C20_ReducedConstraintsAreNonNegativity ==
    IsCall("y2xi_xi2y") => (ReducedConstraintsHold <=> IncrementsNonNegative)

\* three categories listed out of order, a positive gap and range, and
\* a y that meets the constraints with equality in the last row
C20_Witness ==
    /\ IsCall("y2xi_xi2y")
    /\ Len(ret.y) = 3
    /\ ~Ascending(ret.xs)
    /\ ret.interval_gap = V(1, 2)
    /\ ret.interval_range = Int2V(1)
    /\ ReducedConstraintsHold
    /\ IncrementsNonNegative
    /\ ret.xi[3] = VZero

(***************************************************************************)
(* The objective of the spline fit.                                        *)
(***************************************************************************)
ObjSplineReturned == IsCall("obj_spline") /\ ~Raised(ret.out)
ObjTerms == ret.out.val.terms
ObjDomain == ret.out.val.dom
\* the position c_1 + (j-1)*delta_c of the j-th knot
KnotPosition(j) == VAdd(ObjDomain.c_1, VScale(ObjDomain.delta_c, RNorm(j - 1, 1)))
\* the piecewise-linear surrogate at y for segment n: y*xi[1]/c_1 in the
\* first segment, xi[N] beyond the last knot, the line through the two
\* neighbouring knots in between
Surrogate(y, n) ==
    IF n = 1 THEN VDiv(VMul(y, ret.optimal_xi[1]), ObjDomain.c_1)
    ELSE IF n = ObjDomain.N + 1 THEN ret.optimal_xi[ObjDomain.N]
    ELSE VAdd(ret.optimal_xi[n - 1],
              VDiv(VMul(VSub(y, KnotPosition(n - 1)),
                        VSub(ret.optimal_xi[n], ret.optimal_xi[n - 1])),
                   ObjDomain.delta_c))
ResidualAdded(k) == ObjTerms[k].residual # PyNone
ResidualIsOfSurrogate(k) ==
    /\ ObjTerms[k].surrogate = Surrogate(ret.sim_all[k], ObjTerms[k].n)
    /\ ObjTerms[k].residual = VSub(ret.measurements[k], ObjTerms[k].surrogate)
OnKnotGetsKnotValue(k) ==
    \A j \in 1..ObjDomain.N :
        ret.sim_all[k] = KnotPosition(j) => ObjTerms[k].surrogate = ret.optimal_xi[j]

\* C21: obj_spline adds exactly one squared residual for every simulated
\* value y_k, taken against y_k*xi[1]/c_1 in the first segment, xi[N] beyond
\* the last knot and the linear interpolation between the two neighbouring
\* knots otherwise; a value on the j-th knot position gets xi[j]
C21_OneResidualPerValue ==
    ObjSplineReturned =>
        \A k \in 1..Len(ret.sim_all) :
            ResidualAdded(k) /\ ResidualIsOfSurrogate(k) /\ OnKnotGetsKnotValue(k)

\* the values that do add a residual add the one of the surrogate
ResidualsAddedAreOfSurrogate ==
    ObjSplineReturned =>
        \A k \in 1..Len(ret.sim_all) :
            ResidualAdded(k) => ResidualIsOfSurrogate(k) /\ OnKnotGetsKnotValue(k)
\* a call in which every value adds its residual, two of them on knots
AllResidualsAddedOnKnots ==
    /\ ObjSplineReturned
    /\ \A k \in 1..Len(ret.sim_all) : ResidualAdded(k)
    /\ ret.sim_all[1] = KnotPosition(1)
    /\ ret.sim_all[2] = KnotPosition(2)

(***************************************************************************)
(* The bounds of a category.                                               *)
(***************************************************************************)
ReducedBoundsCall ==
    /\ IsCall("get_bounds_for_category")
    /\ ret.options["method"] = REDUCED
    /\ \A i \in 1..Len(ret.xs) : ~Raised(ret.out[i])
\* the pair returned for category k (xs lists category k at position k)
UpperOf(k) == ret.out[k].val.x_upper
LowerBoundOf(k) == ret.out[k].val.x_lower
BoundsAreOfFittedScalars ==
    \A k \in 1..Len(ret.xs) :
        /\ ret.xs[k].category = k
        /\ UpperOf(k) = ret.optimal_scaling_bounds[k]
        /\ LowerBoundOf(k) =
              IF k = 1 THEN VZero
              ELSE VAdd(ret.optimal_scaling_bounds[k - 1], VScale(ret.interval_gap, <<1, 2>>))
MeetsReducedConstraints ==
    Satisfies(reduced_constraints(Len(ret.xs), ret.interval_range, ret.interval_gap),
              ret.optimal_scaling_bounds)
IntervalsOrdered ==
    /\ \A k \in 1..Len(ret.xs) : VLeq(LowerBoundOf(k), UpperOf(k))
    /\ \A k \in 2..Len(ret.xs) : VLeq(UpperOf(k - 1), LowerBoundOf(k))

\* C22: in the reduced method category k gets the upper bound y[k] and the
\* lower bound 0 (k = 1) or y[k-1] + interval_gap/2 (k > 1), and for every
\* vector y that satisfies the reduced constraints each category has
\* lower <= upper and consecutive intervals do not overlap
C22_ReducedBoundsOrdered ==
    ReducedBoundsCall =>
        /\ BoundsAreOfFittedScalars
        /\ MeetsReducedConstraints => IntervalsOrdered

\* the bounds themselves are as stated for every vector
ReducedBoundsAreOfFittedScalars == ReducedBoundsCall => BoundsAreOfFittedScalars
\* the order follows where the interval width (max_sim, or max_sim - min_sim)
\* is not negative
ReducedBoundsOrderedForNonNegativeWidth ==
    ReducedBoundsCall /\ VLeq(VZero, ret.interval_range) /\ MeetsReducedConstraints
        => IntervalsOrdered
ReducedBoundsOrderedReached ==
    /\ ReducedBoundsCall
    /\ Len(ret.xs) = 3
    /\ VLess(VZero, ret.interval_range)
    /\ MeetsReducedConstraints
    /\ IntervalsOrdered

(***************************************************************************)
(* The sensitivity slice read for an outer parameter.                      *)
(***************************************************************************)
\* the position, counted from 0, of the simulation parameter of map entry
\* pos in the simulator's parameter-id list
PositionInSimulator(pos) ==
    IndexOf(frame.par_sim_ids, frame.parameter_mapping[pos].par_sim) - 1
SliceIsOfParameter(s) ==
    /\ s.par_sim_idx = PositionInSimulator(s.pos)
    /\ s.parameters \subseteq {PositionInSimulator(s.pos)}
OnlyOuterBefore(pos) ==
    \A q \in 1..(pos - 1) : IsOuterParameter(frame.parameter_mapping[q].par_opt)

\* C23: the sensitivity slice index calculate_gradients uses for an outer
\* parameter is the position of its simulation parameter in the simulator's
\* parameter-id list, for every parameter map, those with a numeric or an
\* 'optimalScaling_' entry before the parameter included
C23_SliceIndexIsParameterPosition ==
    frame.active => \A k \in 1..Len(frame.slices) : SliceIsOfParameter(frame.slices[k])

\* it is the position where only outer parameters precede in the map
SliceIndexIsPositionAfterOuterOnly ==
    frame.active =>
        \A k \in 1..Len(frame.slices) :
            OnlyOuterBefore(frame.slices[k].pos) => SliceIsOfParameter(frame.slices[k])
SecondOuterParameterSliceRead ==
    /\ frame.active
    /\ \E k \in 1..Len(frame.slices) :
          /\ frame.slices[k].pos = 2
          /\ OnlyOuterBefore(2)
          /\ frame.slices[k].parameters # {}
          /\ SliceIsOfParameter(frame.slices[k])

(***************************************************************************)
(* The matrix of the spline's normal equations and its copy in the         *)
(* system solved for the sensitivities of the inner parameters.            *)
(***************************************************************************)
DxiCall == IsCall("spline_get_dxi_dtheta") /\ ~Raised(ret.out)
LeadingBlock == ret.out.val.Jacobian_derivative
JacobianOfSameData ==
    spline_get_Jacobian(1, ret.sim_all, ret.measurements, get_default_options).val.Jacobian
BlockIsScaledJacobian ==
    \E Jacobian \in {JacobianOfSameData} :
        \A r, c \in 1..ret.out.val.N :
            LeadingBlock[r][c] = VScale(VDiv(Jacobian[r][c], ret.w), <<2, 1>>)
BlockSymmetric ==
    \A r, c \in 1..ret.out.val.N : LeadingBlock[r][c] = LeadingBlock[c][r]
InteriorSegment(k) == ret.out.val.n[k] > 1 /\ ret.out.val.n[k] < ret.out.val.N + 1

\* C24: for the same group data the leading N x N block of the matrix
\* assembled in spline_get_dxi_dtheta is (2/w) times the matrix returned by
\* spline_get_Jacobian, and it is symmetric
C24_LeadingBlockIsScaledJacobian == DxiCall => BlockIsScaledJacobian /\ BlockSymmetric

\* the two agree where no datapoint lies in an interior segment
BlockIsScaledJacobianWithoutInterior ==
    DxiCall /\ (\A k \in 1..Len(ret.sim_all) : ~InteriorSegment(k))
        => BlockIsScaledJacobian /\ BlockSymmetric
BlockWithoutInteriorReached ==
    /\ DxiCall
    /\ ret.out.val.N = 1
    /\ \A k \in 1..Len(ret.sim_all) : ~InteriorSegment(k)
    /\ BlockIsScaledJacobian
    /\ LeadingBlock[1][1] # VZero

(***************************************************************************)
(* The pair returned for a bound string of a supported form.               *)
(***************************************************************************)
SupportedForm ==
    /\ BoundsCall
    /\ RowsForCategory # <<>>
    /\ RowsForCategory[1].measurement \in WellFormedStrings
ReturnsPair ==
    /\ ~Raised(ret.out)
    /\ DOMAIN ret.out.val = {"x_upper", "x_lower"}

\* C25: get_bounds_from_hard_constraints returns an (upper, lower) pair for
\* every category whose bound string has one of the forms '>L', '<U',
\* '>L,<U'; '<U' gives a lower bound for a category above 1 as it does for
\* category 1
C25_SupportedFormsReturnPair == SupportedForm => ReturnsPair

\* the pair is returned for category 1, and for the other categories where
\* the string supplies a lower bound other than -1
SupportedFormsReturnPairWithLowerBound ==
    SupportedForm /\ (ret.x.category = 1
                      \/ \E L \in NumStrs, U \in NumStrs :
                            /\ L.val # NoConstraint
                            /\ BoundString(LowerForm(L)) \/ BoundString(BothForm(L, U)))
        => ReturnsPair
UpperFormForSecondCategoryRaises ==
    \A U \in NumStrs :
        BoundString(UpperForm(U)) /\ ret.x.category = 2 => ret.out = Raise("UnboundLocalError")

(***************************************************************************)
(* The simulation vector and the sensitivity vector of a group.            *)
(***************************************************************************)
VectorsCall ==
    /\ IsCall("quantitative_vectors")
    /\ ~Raised(ret.sim_all)
    /\ ~Raised(ret.sy_all)
TimesOf(c) == ret.simulation_indices[ret.gr][c]
\* the number of time indices listed for the group before condition c
ListedBefore(c) ==
    LET F[i \in 0..(c - 1)] == IF i = 0 THEN 0 ELSE F[i - 1] + Len(TimesOf(i))
    IN  F[c - 1]
ListedInAll == ListedBefore(Len(ret.simulation_indices[ret.gr]) + 1)
\* the j-th time index listed for condition c: both vectors hold at position
\* ListedBefore(c) + j the entry of that condition and time index in the
\* observable column of the group (places are counted from 0 in the entries)
SamePlace(c, j) ==
    LET k == ListedBefore(c) + j
    IN  /\ ret.sim_all.val[k] = sim_entry(c - 1, TimesOf(c)[j] - 1, ret.gr - 1)
        /\ ret.sy_all.val[k] =
              sy_entry(c - 1, TimesOf(c)[j] - 1, ret.par_sim_idx, ret.gr - 1)

\* C26: for every group and index table the two vectors have the same
\* length, the number of time indices listed for the group over all
\* conditions, and are filled in condition order, then in the listed time
\* order: position k of both refers to the same condition and time index
\* and to the observable column of the group only
C26_VectorsAligned ==
    VectorsCall =>
        /\ Len(ret.sim_all.val) = ListedInAll
        /\ Len(ret.sy_all.val) = ListedInAll
        /\ \A c \in 1..Len(ret.simulation_indices[ret.gr]) :
              \A j \in 1..Len(TimesOf(c)) : SamePlace(c, j)

\* the second group, time indices out of order in the first condition and
\* two of them in the second
C26_Witness ==
    /\ VectorsCall
    /\ ret.gr = 2
    /\ TimesOf(1) = <<3, 1>>
    /\ TimesOf(2) = <<2, 3>>
    /\ ret.par_sim_idx = 1
    /\ Len(ret.sy_all.val) = 4
    /\ ret.sy_all.val[3] = sy_entry(1, 1, 1, 1)
    /\ ret.sim_all.val[3] = sim_entry(1, 1, 1)

(***************************************************************************)
(* DesignProblem without parameters and without a result.                  *)
(***************************************************************************)
NeitherGiven == IsCall("DesignProblem") /\ ret.initial_x = PyNone /\ ret.result = PyNone

\* C27: constructing a DesignProblem with neither initial_x nor result fails
\* with the ValueError 'You have to pass either the parameters x or the
\* pypesto result', before any attribute of the result is accessed
C27_NeitherGivenRaisesValueError ==
    NeitherGiven => ret.out = Raise("ValueError") /\ ret.accessed = <<>>

\* what the constructor does then: the ValueError is built and dropped, and
\* reading result.optimize_result of None ends it with AttributeError
NeitherGivenRaisesAttributeError ==
    NeitherGiven =>
        /\ ret.constructed = <<"ValueError">>
        /\ ret.accessed = <<"optimize_result">>
        /\ ret.out = Raise("AttributeError")
\* with a result of at least one start the parameters of its first start
\* are taken
InitialXOfFirstStart ==
    /\ IsCall("DesignProblem") /\ ret.initial_x = PyNone /\ ret.result # PyNone
    /\ ret.result.optimize_result.x # <<>> /\ ~Raised(ret.out)
    => ret.out.val.initial_x = ret.result.optimize_result.x[1]

=============================================================================
